---------------------------- MODULE Scanner_proofs ----------------------------
(* A runbase device, for every set of scans, whatever the server finds for *)
(* them and however often the device fails: its types, what it shows       *)
(* green, how it shuts down, and that it implements ScanDelivery.          *)
EXTENDS Scanner, TLAPS

-----------------------------------------------------------------------------
(* What is in a sequence. *)
LEMMA Appended ==
  ASSUME NEW S, NEW q \in Seq(S), NEW s \in S
  PROVE  Append(q, s) \in Seq(S) /\ ToSet(Append(q, s)) = ToSet(q) \cup {s}
         /\ Len(Append(q, s)) = Len(q) + 1
<1>1. DOMAIN Append(q, s) = DOMAIN q \cup {Len(q) + 1}
  OBVIOUS
<1>2. \A i \in DOMAIN q : Append(q, s)[i] = q[i]
  OBVIOUS
<1>3. Append(q, s)[Len(q) + 1] = s
  OBVIOUS
<1> QED BY <1>1, <1>2, <1>3 DEF ToSet

LEMMA Taken ==
  ASSUME NEW S, NEW q \in Seq(S), q # <<>>
  PROVE  /\ Head(q) \in S /\ Tail(q) \in Seq(S)
         /\ ToSet(q) = {Head(q)} \cup ToSet(Tail(q))
         /\ Len(Tail(q)) = Len(q) - 1
<1>1. /\ DOMAIN q = 1..Len(q) /\ Len(q) \in Nat /\ Len(q) >= 1
      /\ DOMAIN Tail(q) = 1..(Len(q) - 1)
      /\ Len(Tail(q)) = Len(q) - 1 /\ Tail(q) \in Seq(S)
  OBVIOUS
<1>2. \A i \in 1..(Len(q) - 1) : Tail(q)[i] = q[i + 1]
  OBVIOUS
<1>3. Head(q) = q[1]
  OBVIOUS
<1>4. ToSet(q) \subseteq {Head(q)} \cup ToSet(Tail(q))
  <2>1. \A i \in 1..Len(q) : i = 1 \/ (i - 1 \in 1..(Len(q) - 1) /\ (i - 1) + 1 = i)
    BY <1>1
  <2>2. \A i \in 1..Len(q) : q[i] = Head(q) \/ \E j \in 1..(Len(q) - 1) : Tail(q)[j] = q[i]
    BY <2>1, <1>2, <1>3
  <2> QED BY <2>2, <1>1 DEF ToSet
<1>5. {Head(q)} \cup ToSet(Tail(q)) \subseteq ToSet(q)
  <2>1. \A j \in 1..(Len(q) - 1) : j + 1 \in 1..Len(q)
    BY <1>1
  <2>2. 1 \in 1..Len(q)
    BY <1>1
  <2> QED BY <1>1, <1>2, <1>3, <2>1, <2>2 DEF ToSet
<1> QED BY <1>1, <1>3, <1>4, <1>5

LEMMA NothingIn == ToSet(<<>>) = {} /\ Len(<<>>) = 0
BY DEF ToSet

LEMMA Kept ==
  ASSUME NEW S, NEW q \in Seq(S), NEW n \in 0..Len(q)
  PROVE  SubSeq(q, 1, n) \in Seq(S) /\ ToSet(SubSeq(q, 1, n)) \subseteq ToSet(q)
<1>1. Len(SubSeq(q, 1, n)) = n /\ \A i \in 1..n : SubSeq(q, 1, n)[i] = q[i] /\ q[i] \in S
  OBVIOUS
<1>2. SubSeq(q, 1, n) \in Seq(S)
  OBVIOUS
<1>3. \A i \in 1..n : i \in DOMAIN q
  OBVIOUS
<1>4. DOMAIN SubSeq(q, 1, n) = 1..n
  BY <1>1, <1>2
<1> QED BY <1>1, <1>2, <1>3, <1>4 DEF ToSet

LEMMA InSeq ==
  ASSUME NEW S, NEW q \in Seq(S) PROVE ToSet(q) \subseteq S
BY DEF ToSet

-----------------------------------------------------------------------------
(* A post belongs to the scan in its thread's hand, and to the one request *)
(* whose answer the thread waits for.                                      *)
HeldAreMade == HeldScans \subseteq made

Counted == unfinished >= Len(queue) + (IF hand = NoScan THEN 0 ELSE 1)

Occupied == \A t \in Threads : reply[t] # "none" => InHand(t) # NoScan

Waiting == \A r \in requests, t \in Threads : r.by = t => reply[t] = "wait"

Holding ==
  /\ ScannerTypeOK
  /\ HeldAreMade
  /\ Counted
  /\ Occupied
  /\ Waiting

(* What a step does to the scans: nothing but move them, or it reads one,  *)
(* or one is answered for, or a fault loses some, or a torn line takes one *)
(* with it.                                                                *)
Keeps ==
  /\ made' = made /\ answered' = answered /\ HeldScans' = HeldScans /\ faults' = faults
  /\ torn' => torn

Makes ==
  \E s \in Scans : /\ s \notin made /\ made' = made \cup {s}
                   /\ HeldScans' = HeldScans \cup {s}
                   /\ answered' = answered /\ faults' = faults /\ torn' = torn

AnswersFor ==
  \E s \in HeldScans : /\ answered' = answered \cup {s}
                       /\ HeldScans \ {s} \subseteq HeldScans' /\ HeldScans' \subseteq HeldScans
                       /\ made' = made /\ faults' = faults /\ torn' = torn

Loses ==
  /\ made' = made /\ answered' = answered /\ HeldScans' \subseteq HeldScans
  /\ faults' = faults + 1 /\ torn' \in BOOLEAN

Spoils ==
  /\ torn /\ torn' = FALSE
  /\ made' = made /\ answered' = answered /\ faults' = faults
  /\ \E s \in HeldScans : HeldScans \ {s} \subseteq HeldScans' /\ HeldScans' \subseteq HeldScans

Kinds == Keeps \/ Makes \/ AnswersFor \/ Loses \/ Spoils

LEMMA Finished ==
  ASSUME Holding, NEW t \in Threads, reply[t] # "none", Finish(t)
  PROVE  /\ InHand(t) \in Scans /\ InHand(t) \in HeldScans
         /\ reply' = [reply EXCEPT ![t] = "none"] /\ queue' = queue /\ keyed' = keyed
         /\ hand' \in Scans \cup {NoScan} /\ batch' \in Seq(Scans) /\ unfinished' \in Nat
         /\ ToSet(batch) \cup ({hand} \ {NoScan})
              = {InHand(t)} \cup ToSet(batch') \cup ({hand'} \ {NoScan})
         /\ Counted'
         /\ \A o \in Threads \ {t} : InHand(o)' = InHand(o)
<1> USE DEF Threads
<1>1. InHand(t) # NoScan /\ Len(queue) \in Nat /\ unfinished \in Nat
  BY DEF Holding, Occupied, ScannerTypeOK
<1>2. CASE t = "worker"
  <2>1. InHand(t) = hand /\ hand \in Scans /\ hand' = NoScan /\ batch' = batch /\ batch \in Seq(Scans)
    BY <1>1, <1>2 DEF Finish, InHand, Holding, ScannerTypeOK
  <2>2. unfinished' = unfinished - 1 /\ unfinished >= Len(queue) + 1 /\ queue' = queue
    BY <1>1, <1>2, <2>1 DEF Finish, Holding, Counted, InHand
  <2>3. unfinished' \in Nat /\ Counted'
    BY <1>1, <2>1, <2>2 DEF Counted
  <2> QED BY <1>1, <1>2, <2>1, <2>2, <2>3 DEF Finish, HeldScans, InHand
<1>3. CASE t = "flusher"
  <2>1. batch # <<>> /\ batch \in Seq(Scans) /\ InHand(t) = Head(batch)
    BY <1>1, <1>3 DEF InHand, Holding, ScannerTypeOK
  <2>2. /\ batch' = Tail(batch) /\ hand' = hand /\ unfinished' = unfinished /\ queue' = queue
        /\ reply' = [reply EXCEPT ![t] = "none"] /\ keyed' = keyed
    BY <1>3 DEF Finish
  <2>3. Head(batch) \in Scans /\ Tail(batch) \in Seq(Scans) /\ ToSet(batch) = {Head(batch)} \cup ToSet(Tail(batch))
    BY <2>1, Taken
  <2>4. Counted' /\ hand \in Scans \cup {NoScan}
    BY <2>2 DEF Counted, Holding, ScannerTypeOK
  <2>5. \A o \in Threads \ {t} : InHand(o)' = InHand(o)
    BY <1>3, <2>2 DEF InHand
  <2> QED BY <1>1, <1>3, <2>1, <2>2, <2>3, <2>4, <2>5 DEF HeldScans
<1> QED BY <1>2, <1>3

(* Each action keeps the types and is of one kind. *)
Fine == ScannerTypeOK' /\ Counted' /\ Occupied' /\ Kinds

LEMMA ReadFine == ASSUME Holding, NEW s \in Scans, Read(s) PROVE Fine
<1>1. /\ Append(queue, s) \in Seq(Scans) /\ ToSet(Append(queue, s)) = ToSet(queue) \cup {s}
      /\ Len(Append(queue, s)) = Len(queue) + 1 /\ Len(queue) \in Nat /\ s # NoScan
  BY Appended, ScannerConstants DEF Holding, ScannerTypeOK
<1>2. ScannerTypeOK'
  BY <1>1 DEF Read, file, server, Holding, ScannerTypeOK
<1>3. Counted' /\ Occupied'
  BY <1>1 DEF Read, file, Holding, ScannerTypeOK, Counted, Occupied, InHand
<1>4. Makes
  BY <1>1 DEF Read, file, Makes, HeldScans
<1> QED BY <1>2, <1>3, <1>4 DEF Fine, Kinds

LEMMA TakeFine == ASSUME Holding, Take PROVE Fine
<1>1. /\ Head(queue) \in Scans /\ Tail(queue) \in Seq(Scans) /\ Head(queue) # NoScan
      /\ ToSet(queue) = {Head(queue)} \cup ToSet(Tail(queue))
      /\ Len(Tail(queue)) = Len(queue) - 1 /\ Len(queue) \in Nat
  BY Taken, ScannerConstants DEF Take, file, Holding, ScannerTypeOK
<1>2. ScannerTypeOK'
  BY <1>1 DEF Take, file, server, past, Holding, ScannerTypeOK
<1>3. Counted' /\ Occupied'
  BY <1>1 DEF Take, file, Holding, ScannerTypeOK, Counted, Occupied, InHand
<1>4. Keeps
  BY <1>1 DEF Take, file, past, Keeps, HeldScans
<1> QED BY <1>2, <1>3, <1>4 DEF Fine, Kinds

LEMMA DrainFine == ASSUME Holding, Drain PROVE Fine
<1>1. ScannerTypeOK'
  BY DEF Drain, file, server, past, Holding, ScannerTypeOK
<1>2. Counted' /\ reply["flusher"] = "none"
  BY DEF Drain, file, Holding, Counted, Occupied, InHand, Threads
<1>3. Occupied'
  BY <1>2 DEF Drain, file, server, past, Holding, Occupied, InHand, Threads
<1>4. Keeps
  BY NothingIn DEF Drain, file, past, Keeps, HeldScans
<1> QED BY <1>1, <1>2, <1>3, <1>4 DEF Fine, Kinds

LEMMA PostFine == ASSUME Holding, NEW t \in Threads, Post(t) PROVE Fine
<1>1. InHand(t) \in Scans
  <2>1. CASE t = "worker"
    BY <2>1 DEF InHand, Post, Holding, ScannerTypeOK
  <2>2. CASE t # "worker"
    <3>1. batch # <<>> /\ batch \in Seq(Scans) /\ InHand(t) = Head(batch)
      BY <2>2 DEF InHand, Post, Holding, ScannerTypeOK
    <3> QED BY <3>1, Taken
  <2> QED BY <2>1, <2>2
<1>2. ScannerTypeOK'
  <2>1. [scan |-> InHand(t), by |-> t, known |-> FALSE] \in Request
    BY <1>1 DEF Request
  <2>2. requests' \subseteq Request
    BY <2>1 DEF Post, file, Holding, ScannerTypeOK
  <2>3. reply' \in [Threads -> {"none", "wait"} \cup Answers]
    BY DEF Post, file, Holding, ScannerTypeOK
  <2> QED BY <2>2, <2>3 DEF Post, file, memory, past, Holding, ScannerTypeOK
<1>3. Counted' /\ Occupied'
  BY DEF Post, file, memory, Holding, ScannerTypeOK, Counted, Occupied, InHand
<1>4. Keeps
  BY DEF Post, file, memory, past, Keeps, HeldScans
<1> QED BY <1>2, <1>3, <1>4 DEF Fine, Kinds

LEMMA DeliverFine == ASSUME Holding, NEW t \in Threads, Deliver(t) PROVE Fine
<1>1. Finish(t) /\ reply[t] # "none"
  BY DEF Deliver
<1>2. InHand(t) \in made
  BY <1>1, Finished DEF Holding, HeldAreMade
<1>3. ScannerTypeOK'
  BY <1>1, <1>2, Finished DEF Deliver, file, server, Holding, ScannerTypeOK
<1>4. Counted'
  BY <1>1, Finished
<1>5. Occupied'
  BY <1>1, Finished DEF Holding, Occupied, ScannerTypeOK
<1>6. AnswersFor
  BY <1>1, Finished DEF Deliver, file, AnswersFor, HeldScans
<1> QED BY <1>3, <1>4, <1>5, <1>6 DEF Fine, Kinds

LEMMA AbandonedRequests ==
  ASSUME Holding, NEW t \in Threads, Abandon(t)
  PROVE  /\ requests' \subseteq Request
         /\ \A r \in requests' :
              \/ r \in requests /\ r.by # t
              \/ r.by = "nobody"
<1>1. requests \subseteq Request
  BY DEF Holding, ScannerTypeOK
<1>2. \A r \in Request : [r EXCEPT !.by = "nobody"] \in Request /\ [r EXCEPT !.by = "nobody"].by = "nobody"
  BY DEF Request
<1> QED BY <1>1, <1>2 DEF Abandon

LEMMA RebufferFine == ASSUME Holding, NEW t \in Threads, Rebuffer(t) PROVE Fine
<1>1. Finish(t) /\ reply[t] # "none" /\ Abandon(t)
  BY DEF Rebuffer
<1>2. /\ Append(outbox, InHand(t)) \in Seq(Scans)
      /\ ToSet(Append(outbox, InHand(t))) = ToSet(outbox) \cup {InHand(t)}
      /\ outbox' = (IF torn THEN outbox ELSE Append(outbox, InHand(t))) /\ torn' = FALSE
      /\ torn \in BOOLEAN
  BY <1>1, Finished, Appended DEF Holding, ScannerTypeOK, Rebuffer, AppendLine
<1>3. ScannerTypeOK'
  BY <1>1, <1>2, Finished, AbandonedRequests DEF Rebuffer, past, Holding, ScannerTypeOK
<1>4. Counted'
  BY <1>1, Finished
<1>5. Occupied'
  BY <1>1, Finished DEF Holding, Occupied, ScannerTypeOK
<1>6. CASE ~torn
  <2>1. Keeps
    BY <1>1, <1>2, <1>6, Finished DEF Rebuffer, past, Keeps, HeldScans
  <2> QED BY <1>3, <1>4, <1>5, <2>1 DEF Fine, Kinds
<1>7. CASE torn
  <2>1. InHand(t) \in HeldScans /\ queue' = queue /\ outbox' = outbox
        /\ ToSet(batch) \cup ({hand} \ {NoScan})
             = {InHand(t)} \cup ToSet(batch') \cup ({hand'} \ {NoScan})
    BY <1>1, <1>2, <1>7, Finished
  <2>2. HeldScans \ {InHand(t)} \subseteq HeldScans' /\ HeldScans' \subseteq HeldScans
    BY <2>1 DEF HeldScans
  <2>3. Spoils
    BY <1>2, <1>7, <2>1, <2>2 DEF Rebuffer, past, Spoils
  <2> QED BY <1>3, <1>4, <1>5, <2>3 DEF Fine, Kinds
<1> QED BY <1>6, <1>7

(* What is left of the file when the process ends. *)
LEMMA FileLeft ==
  ASSUME Holding, UNCHANGED file \/ PowerCut
  PROVE  outbox' \in Seq(Scans) /\ torn' \in BOOLEAN /\ ToSet(outbox') \subseteq ToSet(outbox)
<1>1. CASE UNCHANGED file
  BY <1>1 DEF file, Holding, ScannerTypeOK
<1>2. CASE PowerCut
  BY <1>2, Kept DEF PowerCut, Holding, ScannerTypeOK
<1> QED BY <1>1, <1>2

LEMMA GoneFine == ASSUME Holding, Gone, UNCHANGED file \/ PowerCut PROVE Fine
<1>1. Abandoned \subseteq Request
  BY DEF Abandoned, Request, Holding, ScannerTypeOK
<1>2. ScannerTypeOK'
  BY <1>1, FileLeft, ScannerConstants DEF Gone, past, Holding, ScannerTypeOK
<1>3. Counted' /\ Occupied'
  BY DEF Gone, Counted, Occupied
<1>4. Loses
  BY NothingIn, FileLeft DEF Gone, past, Loses, HeldScans
<1> QED BY <1>2, <1>3, <1>4 DEF Fine, Kinds

LEMMA DieFine == ASSUME Holding, NEW t \in Threads, Die(t) PROVE Fine
<1>1. ScannerTypeOK'
  <2>1. requests' \subseteq Request
    <3> Abandon(t)
      BY DEF Die
    <3> QED BY AbandonedRequests
  <2>2. hand' \in Scans \cup {NoScan} /\ batch' \in Seq(Scans)
    <3> <<>> \in Seq(Scans)
      OBVIOUS
    <3> QED BY DEF Die, Holding, ScannerTypeOK
  <2>3. faults' \in 0..MaxFaults
    BY ScannerConstants DEF Die, Holding, ScannerTypeOK
  <2> QED BY <2>1, <2>2, <2>3 DEF Die, past, Holding, ScannerTypeOK
<1>2. Counted'
  BY DEF Die, Holding, Counted, ScannerTypeOK
<1>3. Occupied'
  BY DEF Die, Holding, Occupied, InHand, ScannerTypeOK, Threads
<1>4. Loses
  BY NothingIn DEF Die, past, Loses, HeldScans, Holding, ScannerTypeOK
<1> QED BY <1>1, <1>2, <1>3, <1>4 DEF Fine, Kinds

LEMMA StartFine == ASSUME Holding, Start \/ Close PROVE Fine
<1>1. ScannerTypeOK'
  BY DEF Start, Close, file, memory, server, past, Holding, ScannerTypeOK
<1>2. Counted' /\ Occupied'
  BY DEF Start, Close, file, memory, Holding, Counted, Occupied, InHand
<1>3. Keeps
  BY DEF Start, Close, file, memory, past, Keeps, HeldScans
<1> QED BY <1>1, <1>2, <1>3 DEF Fine, Kinds

LEMMA ResponseType ==
  ASSUME Holding, NEW r \in requests, NEW a \in Answers, Respond(r, a)
  PROVE  /\ requests' \subseteq Request /\ reply' \in [Threads -> {"none", "wait"} \cup Answers]
         /\ \A t \in Threads : reply'[t] # "none" => reply[t] # "none"
BY DEF Respond, Waiting, Holding, ScannerTypeOK, Request

LEMMA ServerTypes ==
  ASSUME Holding, NEW r \in requests, Guard(r) \/ Process(r) \/ Fail(r)
  PROVE  /\ requests' \subseteq Request /\ reply' \in [Threads -> {"none", "wait"} \cup Answers]
         /\ \A t \in Threads : reply'[t] # "none" => reply[t] # "none"
         /\ journal' \in [Scans -> Rows]
<1>1. CASE \E a \in Answers : Respond(r, a)
  <2>1. journal' \in [Scans -> Rows]
    BY ScannerConstants DEF Guard, Process, Fail, Holding, ScannerTypeOK, Found, Rows, Request
  <2> QED BY <1>1, <2>1, ResponseType
<1>2. CASE ~ \E a \in Answers : Respond(r, a)
  <2>1. Guard(r) /\ requests' = (requests \ {r}) \cup {[r EXCEPT !.known = TRUE]} /\ UNCHANGED reply
    BY <1>2 DEF Guard, Process, Fail, Light, Answers
  <2>2. requests \subseteq Request /\ [r EXCEPT !.known = TRUE] \in Request
    BY DEF Holding, ScannerTypeOK, Request
  <2> QED BY <2>1, <2>2 DEF Guard, Holding, ScannerTypeOK
<1> QED BY <1>1, <1>2

LEMMA ServerFine ==
  ASSUME Holding, NEW r \in requests, Guard(r) \/ Process(r) \/ Fail(r) PROVE Fine
<1>1. /\ process' = process /\ alive' = alive /\ memory' = memory /\ outbox' = outbox /\ torn' = torn
      /\ device' = device /\ past' = past /\ faults' = faults
  BY DEF Guard, Process, Fail, memory, past, file
<1>2. ScannerTypeOK'
  BY <1>1, ServerTypes DEF memory, past, Holding, ScannerTypeOK
<1>3. Counted' /\ Occupied'
  BY <1>1, ServerTypes DEF memory, Holding, Counted, Occupied, InHand
<1>4. Keeps
  BY <1>1 DEF memory, past, Keeps, HeldScans
<1> QED BY <1>2, <1>3, <1>4 DEF Fine, Kinds

LEMMA AdminFine == ASSUME Holding, Admin PROVE Fine
<1>1. ScannerTypeOK'
  BY DEF Admin, SetStatus, RotateKey, DeleteDevice, file, memory, server, past, Holding, ScannerTypeOK, Rows
<1>2. Counted' /\ Occupied'
  BY DEF Admin, SetStatus, RotateKey, DeleteDevice, file, memory, server, Holding, Counted, Occupied, InHand
<1>3. Keeps
  BY DEF Admin, SetStatus, RotateKey, DeleteDevice, file, memory, past, Keeps, HeldScans
<1> QED BY <1>1, <1>2, <1>3 DEF Fine, Kinds

LEMMA HoldingNext == ASSUME Holding, [Next]_vars PROVE ScannerTypeOK' /\ Counted' /\ Occupied' /\ HeldAreMade' /\ Kinds
<1>1. CASE UNCHANGED vars
  BY <1>1 DEF vars, file, memory, server, past, Holding, ScannerTypeOK, HeldAreMade, Counted, Occupied,
              InHand, HeldScans, Kinds, Keeps
<1>2. CASE Next
  <2>1. Fine
    BY <1>2, ReadFine, TakeFine, DrainFine, PostFine, DeliverFine, RebufferFine, GoneFine,
       DieFine, StartFine, ServerFine, AdminFine
       DEF Next, Device, Server, Kill, PowerCut, ExitDone, ExitTimeout
  <2>2. HeldAreMade'
    BY <2>1 DEF Fine, Kinds, Keeps, Makes, AnswersFor, Loses, Spoils, Holding, HeldAreMade
  <2> QED BY <2>1, <2>2 DEF Fine
<1> QED BY <1>1, <1>2

-----------------------------------------------------------------------------
(* The posts.  A thread waits for one request, about the scan in its hand; *)
(* a green answer to it is on record.                                      *)
Lone == \A r, o \in requests : r.by \in Threads /\ r.by = o.by => r = o

Own == \A r \in requests, t \in Threads : r.by = t => r.scan = InHand(t)

GreenReplies ==
  \A t \in Threads : reply[t] = "green" => journal[InHand(t)] = "credited" \/ device = "deleted"

Posted == Waiting /\ Lone /\ Own /\ GreenReplies /\ GreenIsOnRecord

(* What is on record stays there, or the device is gone.                   *)
RecordStays ==
  \/ device' = "deleted"
  \/ device # "deleted" /\ \A s \in Scans : journal[s] = "credited" => journal'[s] = "credited"

LEMMA HandIsScan ==
  ASSUME Holding, NEW t \in Threads, InHand(t) # NoScan PROVE InHand(t) \in Scans
<1>1. CASE t = "worker"
  BY <1>1 DEF InHand, Holding, ScannerTypeOK
<1>2. CASE t # "worker"
  <2>1. batch # <<>> /\ batch \in Seq(Scans) /\ InHand(t) = Head(batch)
    BY <1>2 DEF InHand, Holding, ScannerTypeOK
  <2> QED BY <2>1, Taken
<1> QED BY <1>1, <1>2

(* No post begins or ends. *)
LEMMA QuietPosted ==
  ASSUME Holding, Posted, requests' \subseteq requests, reply' = reply, green' = green, RecordStays,
         \A t \in Threads : reply[t] # "none" => InHand(t)' = InHand(t)
  PROVE  Posted'
<1>1. Waiting' /\ Lone' /\ Own'
  BY DEF Posted, Waiting, Lone, Own
<1>2. GreenReplies'
  BY HandIsScan DEF Posted, GreenReplies, RecordStays, Holding, Occupied
<1>3. GreenIsOnRecord'
  BY DEF Posted, GreenIsOnRecord, RecordStays, Holding, ScannerTypeOK
<1> QED BY <1>1, <1>2, <1>3 DEF Posted

(* A thread gives its post up, or has the answer. *)
LEMMA EndPosted ==
  ASSUME Holding, Posted, NEW t \in Threads,
         \A r \in requests' : \/ r \in requests /\ r.by # t
                              \/ r.by = "nobody",
         reply' = [reply EXCEPT ![t] = "none"],
         \A o \in Threads \ {t} : InHand(o)' = InHand(o),
         device' = device, journal' = journal,
         green' = green \/ (reply[t] = "green" /\ green' = green \cup {InHand(t)})
  PROVE  Posted'
<1>1. reply'[t] = "none" /\ \A o \in Threads \ {t} : reply'[o] = reply[o]
  BY DEF Holding, ScannerTypeOK
<1>2. Waiting' /\ Lone' /\ Own'
  BY <1>1 DEF Posted, Waiting, Lone, Own, Threads
<1>3. GreenReplies'
  BY <1>1 DEF Posted, GreenReplies
<1>4. GreenIsOnRecord'
  BY DEF Posted, GreenReplies, GreenIsOnRecord
<1> QED BY <1>2, <1>3, <1>4 DEF Posted

LEMMA PostPosted == ASSUME Holding, Posted, NEW t \in Threads, Post(t) PROVE Posted'
<1> DEFINE new == [scan |-> InHand(t), by |-> t, known |-> FALSE]
<1>1. /\ requests' = requests \cup {new} /\ \A r \in requests : r.by # t
      /\ new.by = t /\ new.scan = InHand(t)
  BY DEF Post, Posted, Waiting
<1>2. /\ reply'[t] = "wait" /\ \A o \in Threads \ {t} : reply'[o] = reply[o]
      /\ \A o \in Threads : InHand(o)' = InHand(o)
      /\ journal' = journal /\ device' = device /\ green' = green
  BY DEF Post, memory, past, InHand, Holding, ScannerTypeOK
<1> HIDE DEF new
<1>3. Waiting' /\ Lone' /\ Own'
  BY <1>1, <1>2 DEF Posted, Waiting, Lone, Own
<1>4. GreenReplies' /\ GreenIsOnRecord'
  BY <1>2 DEF Posted, GreenReplies, GreenIsOnRecord
<1> QED BY <1>3, <1>4 DEF Posted

LEMMA RespondPosted ==
  ASSUME Holding, Posted, NEW r \in requests, NEW a \in Answers, Respond(r, a),
         memory' = memory, device' = device, green' = green, RecordStays \/ device = "deleted",
         a = "green" => journal'[r.scan] = "credited"
  PROVE  Posted'
<1>1. /\ requests' = requests \ {r} /\ \A t \in Threads : InHand(t)' = InHand(t)
      /\ r.by \in Threads => r.scan = InHand(r.by) /\ \A o \in requests' : o.by # r.by
  BY DEF Respond, memory, InHand, Posted, Own, Lone
<1>2. \A t \in Threads : reply'[t] = IF t = r.by THEN a ELSE reply[t]
  BY DEF Respond, Holding, ScannerTypeOK
<1>3. Waiting' /\ Lone' /\ Own'
  BY <1>1, <1>2 DEF Posted, Waiting, Lone, Own
<1>4. GreenReplies'
  BY <1>1, <1>2, HandIsScan DEF Posted, GreenReplies, RecordStays, Holding, Occupied
<1>5. GreenIsOnRecord'
  BY DEF Posted, GreenIsOnRecord, RecordStays, Holding, ScannerTypeOK
<1> QED BY <1>3, <1>4, <1>5 DEF Posted

LEMMA ServerPosted ==
  ASSUME Holding, Posted, NEW r \in requests, Guard(r) \/ Process(r) \/ Fail(r)
  PROVE  Posted'
<1>1. memory' = memory /\ device' = device /\ green' = green
  BY DEF Guard, Process, Fail, memory, past
<1>2. RecordStays \/ device = "deleted"
  BY <1>1 DEF Guard, Process, Fail, RecordStays, Holding, ScannerTypeOK
<1>3. CASE \E a \in Answers : Respond(r, a) /\ (a = "green" => journal'[r.scan] = "credited")
  BY <1>1, <1>2, <1>3, RespondPosted
<1>4. CASE /\ ~r.known /\ requests' = (requests \ {r}) \cup {[r EXCEPT !.known = TRUE]}
           /\ UNCHANGED <<reply, journal>>
  <2> DEFINE known == [r EXCEPT !.known = TRUE]
  <2>1. known.by = r.by /\ known.scan = r.scan /\ requests' = (requests \ {r}) \cup {known}
    BY <1>4 DEF Holding, ScannerTypeOK, Request
  <2> HIDE DEF known
  <2>2. \A t \in Threads : InHand(t)' = InHand(t)
    BY <1>1 DEF memory, InHand
  <2>3. Waiting' /\ Lone' /\ Own'
    BY <1>4, <2>1, <2>2 DEF Posted, Waiting, Lone, Own
  <2>4. GreenReplies' /\ GreenIsOnRecord'
    BY <1>1, <1>4, <2>2 DEF Posted, GreenReplies, GreenIsOnRecord
  <2> QED BY <2>3, <2>4 DEF Posted
<1>5. CASE Guard(r)
  BY <1>3, <1>4, <1>5 DEF Guard, Answers
<1>6. CASE Process(r)
  <2>1. r.scan \in Scans
    BY DEF Holding, ScannerTypeOK, Request
  <2>2. \A row \in Rows : Light(row) \in Answers /\ (Light(row) = "green" => row = "credited")
    BY DEF Light, Answers, Rows
  <2>3. CASE Respond(r, Light(journal[r.scan])) /\ UNCHANGED journal
    BY <1>3, <2>1, <2>2, <2>3 DEF Holding, ScannerTypeOK
  <2>4. CASE \E found \in {"credited", "unpaid"} :
               journal' = [journal EXCEPT ![r.scan] = found] /\ Respond(r, Light(found))
    BY <1>3, <2>1, <2>2, <2>4 DEF Holding, ScannerTypeOK, Rows
  <2>5. CASE Respond(r, "4xx") \/ Respond(r, "5xx")
    BY <1>3, <2>5 DEF Answers
  <2> QED BY <1>6, <2>1, <2>3, <2>4, <2>5, ScannerConstants DEF Process, Found
<1>7. CASE Fail(r)
  BY <1>3, <1>7 DEF Fail, Answers
<1> QED BY <1>5, <1>6, <1>7

LEMMA GonePosted == ASSUME Holding, Posted, Gone PROVE Posted'
<1>1. \A r \in requests' : r.by = "nobody"
  BY DEF Gone, Abandoned, Holding, ScannerTypeOK, Request
<1>2. Waiting' /\ Lone' /\ Own'
  BY <1>1 DEF Waiting, Lone, Own, Threads
<1>3. GreenReplies' /\ GreenIsOnRecord'
  BY DEF Gone, past, Posted, GreenReplies, GreenIsOnRecord
<1> QED BY <1>2, <1>3 DEF Posted

LEMMA ThreadPosted ==
  ASSUME Holding, Posted, NEW t \in Threads, Deliver(t) \/ Rebuffer(t) \/ Die(t)
  PROVE  Posted'
<1>1. CASE Deliver(t)
  <2>1. Finish(t) /\ reply[t] # "none" /\ reply[t] # "wait"
    BY <1>1 DEF Deliver
  <2>2. requests' = requests /\ \A r \in requests : r.by # t
    BY <1>1, <2>1 DEF Deliver, server, Posted, Waiting
  <2> QED BY <1>1, <2>1, <2>2, Finished, EndPosted DEF Deliver, server
<1>2. CASE Rebuffer(t)
  <2>1. Finish(t) /\ reply[t] # "none" /\ Abandon(t)
    BY <1>2 DEF Rebuffer
  <2> QED BY <1>2, <2>1, Finished, AbandonedRequests, EndPosted DEF Rebuffer, past
<1>3. CASE Die(t)
  <2>1. \A o \in Threads \ {t} : InHand(o)' = InHand(o)
    BY <1>3 DEF Die, InHand, Threads
  <2> QED BY <1>3, <2>1, AbandonedRequests, EndPosted DEF Die, past
<1> QED BY <1>1, <1>2, <1>3

LEMMA PostedNext == ASSUME Holding, Posted, [Next]_vars PROVE Posted'
<1> DEFINE SameHands == \A t \in Threads : reply[t] # "none" => InHand(t)' = InHand(t)
<1>1. CASE (\E s \in Scans : Read(s)) \/ Take \/ Drain \/ Close \/ Start \/ UNCHANGED vars
  <2>1. /\ requests' \subseteq requests /\ reply' = reply /\ green' = green
        /\ journal' = journal /\ device' = device
    BY <1>1 DEF Read, Take, Drain, Close, Start, vars, memory, server, past
  <2>2. SameHands
    BY <1>1 DEF Read, Take, Drain, Close, Start, vars, memory, InHand, Holding, Occupied, Threads
  <2> QED BY <2>1, <2>2, QuietPosted DEF RecordStays
<1>2. CASE Admin
  <2>1. requests' = requests /\ reply' = reply /\ green' = green /\ RecordStays
    BY <1>2 DEF Admin, SetStatus, RotateKey, DeleteDevice, server, past, RecordStays
  <2>2. SameHands
    BY <1>2 DEF Admin, SetStatus, RotateKey, DeleteDevice, memory, InHand
  <2> QED BY <2>1, <2>2, QuietPosted
<1> QED BY <1>1, <1>2, PostPosted, ThreadPosted, GonePosted, ServerPosted
        DEF Next, Device, Server, Kill, PowerCut, ExitDone, ExitTimeout

-----------------------------------------------------------------------------
LEMMA ScannerStart == Init => Holding /\ Posted
<1> SUFFICES ASSUME Init PROVE Holding /\ Posted
  OBVIOUS
<1>1. ScannerTypeOK /\ Counted /\ Occupied
  <2>1. torn \in BOOLEAN
    BY DEF Init
  <2>2. <<>> \in Seq(Scans) /\ Len(<<>>) = 0
    OBVIOUS
  <2>3. ScannerTypeOK
    BY <2>1, <2>2, ScannerConstants DEF Init, ScannerTypeOK, Rows
  <2>4. Counted /\ Occupied
    BY <2>2 DEF Init, Counted, Occupied
  <2> QED BY <2>3, <2>4
<1>2. HeldAreMade
  BY NothingIn DEF Init, HeldAreMade, HeldScans
<1>3. Posted
  BY DEF Init, Posted, Waiting, Lone, Own, GreenReplies, GreenIsOnRecord
<1> QED BY <1>1, <1>2, <1>3 DEF Holding, Posted

LEMMA ScannerInvariant == Spec => [](Holding /\ Posted)
<1>1. Holding /\ Posted /\ [Next]_vars => (Holding /\ Posted)'
  BY HoldingNext, PostedNext DEF Holding, Posted
<1> QED BY <1>1, ScannerStart, PTL DEF Spec

(* Every variable of the device and of its row keeps its type, for any     *)
(* scans, requests and faults.                                             *)
THEOREM ScannerTypeCorrect == Spec => []ScannerTypeOK
<1>1. Holding => ScannerTypeOK
  BY DEF Holding
<1> QED BY <1>1, ScannerInvariant, PTL

(* A runner is shown green only if the server has her scan on record as    *)
(* credited, however late a request is served (delivered, processScan).    *)
THEOREM LightsAreOnRecord == Spec => []GreenIsOnRecord
<1>1. Posted => GreenIsOnRecord
  BY DEF Posted
<1> QED BY <1>1, ScannerInvariant, PTL

(* drain_and_wait: when nothing is unfinished, nothing is queued and the   *)
(* worker has no scan in hand.                                             *)
THEOREM ShutdownWaits == Spec => ShutdownWaitsForScans
<1>1. Holding /\ ExitDone => queue = <<>> /\ hand = NoScan
  <2> SUFFICES ASSUME Holding, ExitDone PROVE queue = <<>> /\ hand = NoScan
    OBVIOUS
  <2>1. queue \in Seq(Scans) /\ Len(queue) \in Nat /\ unfinished = 0
    BY DEF Holding, ScannerTypeOK, ExitDone
  <2>2. hand = NoScan /\ Len(queue) = 0
    BY <2>1 DEF Holding, Counted
  <2> QED BY <2>1, <2>2
<1>2. Holding => [ExitDone => queue = <<>> /\ hand = NoScan]_vars
  BY <1>1
<1> QED BY <1>2, ScannerInvariant, PTL DEF ShutdownWaitsForScans

(* No scan is lost by an outage, a timeout or a request served late: only  *)
(* when the process ends, a thread dies or the power is cut, or by the     *)
(* torn line that such a fault has left (Sender, Outbox).                  *)
THEOREM NetworkLosesNone == Spec => OnlyFaultsLose
<1>1. ASSUME Holding, [Next]_vars, faults' = faults, ~torn PROVE LostScans' \subseteq LostScans
  <2>1. Kinds /\ faults \in Nat
    BY <1>1, HoldingNext, ScannerConstants DEF Holding, ScannerTypeOK
  <2>2. ~Loses /\ ~Spoils
    BY <1>1, <2>1 DEF Loses, Spoils
  <2>3. CASE Keeps
    BY <2>3 DEF Keeps, LostScans
  <2>4. CASE Makes
    BY <2>4 DEF Makes, LostScans
  <2>5. CASE AnswersFor
    BY <2>5 DEF AnswersFor, LostScans
  <2> QED BY <2>1, <2>2, <2>3, <2>4, <2>5 DEF Kinds
<1>2. Holding /\ [Next]_vars => [faults' = faults /\ ~torn => LostScans' \subseteq LostScans]_vars
  BY <1>1
<1> QED BY <1>2, ScannerInvariant, PTL DEF Spec, OnlyFaultsLose

(* What the file holds moves to the flusher's list or stays.               *)
LEMMA FileKept ==
  ASSUME Holding, [Next]_vars, ~CutsFile
  PROVE  ToSet(outbox) \subseteq ToSet(outbox') \cup ToSet(batch')
<1>1. CASE UNCHANGED outbox
  BY <1>1
<1>2. CASE Drain
  BY <1>2 DEF Drain
<1>3. ASSUME NEW t \in Threads, Rebuffer(t) PROVE ToSet(outbox) \subseteq ToSet(outbox')
  <2>1. InHand(t) \in Scans /\ outbox \in Seq(Scans)
    BY <1>3, Finished DEF Rebuffer, Holding, ScannerTypeOK
  <2> QED BY <1>3, <2>1, Appended DEF Rebuffer, AppendLine
<1>4. CASE Server \/ Admin
  BY <1>1, <1>4 DEF file, Server, Guard, Process, Fail, Admin, SetStatus, RotateKey, DeleteDevice
<1>5. CASE Device
  <2>1. CASE PowerCut
    BY <1>1, <2>1 DEF CutsFile, file
  <2> QED BY <1>1, <1>2, <1>3, <1>5, <2>1
          DEF file, Device, Read, Take, Close, ExitDone, ExitTimeout, Kill, Gone, Start, Post, Deliver, Die
<1> QED BY <1>1, <1>4, <1>5 DEF Next, vars, file

(* Where the promise that a buffered scan survives a reboot is kept: as    *)
(* long as the scan is in the file and the disk keeps it (Outbox.append).  *)
THEOREM FiledScansSurvive == Spec => FiledScanSurvives
<1>1. Holding /\ [Next]_vars => [CutsFile \/ ToSet(outbox) \subseteq HeldScans' \cup answered']_vars
  BY FileKept DEF HeldScans
<1> QED BY <1>1, ScannerInvariant, PTL DEF Spec, FiledScanSurvives

-----------------------------------------------------------------------------
(* What each kind of step is to ScanDelivery. *)

LEMMA KindsDeliver ==
  ASSUME Holding, HeldAreMade', ScannerTypeOK', Kinds
  PROVE  [Delivery!Next]_<<Status, faults, torn>>
<1>1. CASE Keeps
  <2>1. Status' = Status /\ faults' = faults /\ torn \in BOOLEAN /\ torn' \in BOOLEAN
    BY <1>1 DEF Keeps, Status, Holding, ScannerTypeOK
  <2>2. torn' = torn \/ (torn /\ torn' = FALSE)
    BY <1>1, <2>1 DEF Keeps
  <2> QED BY <2>1, <2>2 DEF Delivery!Next, Delivery!Mend
<1>2. CASE Makes
  <2> PICK s \in Scans : /\ s \notin made /\ made' = made \cup {s}
                         /\ HeldScans' = HeldScans \cup {s}
                         /\ answered' = answered /\ faults' = faults /\ torn' = torn
    BY <1>2 DEF Makes
  <2>1. s \notin HeldScans /\ s \notin answered
    BY DEF Holding, HeldAreMade, ScannerTypeOK
  <2>2. Status[s] = "unmade"
    BY <2>1 DEF Status
  <2>3. Status' = [x \in Scans |-> IF x \in {s} THEN "held" ELSE Status[x]]
    BY <2>1 DEF Status
  <2> QED BY <2>2, <2>3 DEF Delivery!Next, Delivery!Make, Delivery!Become
<1>3. CASE AnswersFor
  <2> PICK s \in HeldScans : /\ answered' = answered \cup {s}
                             /\ HeldScans \ {s} \subseteq HeldScans' /\ HeldScans' \subseteq HeldScans
                             /\ made' = made /\ faults' = faults /\ torn' = torn
    BY <1>3 DEF AnswersFor
  <2>1. s \in Scans
    BY DEF Holding, HeldAreMade, ScannerTypeOK
  <2>2. CASE s \in answered
    <3>1. Status' = Status
      BY <2>2 DEF Status
    <3> QED BY <3>1
  <2>3. CASE s \notin answered
    <3>1. Status[s] = "held"
      BY <2>1, <2>3 DEF Status
    <3>2. Status' = [x \in Scans |-> IF x \in {s} THEN "answered" ELSE Status[x]]
      BY <2>3 DEF Status
    <3> QED BY <2>1, <3>1, <3>2 DEF Delivery!Next, Delivery!Answer, Delivery!Become
  <2> QED BY <2>2, <2>3
<1>4. CASE Loses
  <2> DEFINE L == {s \in Scans : s \in HeldScans /\ s \notin HeldScans' /\ s \notin answered}
  <2>1. L \in SUBSET Delivery!Held
    BY DEF Delivery!Held, Status
  <2>2. Status' = [x \in Scans |-> IF x \in L THEN "lost" ELSE Status[x]]
    BY <1>4 DEF Loses, Status, Holding, HeldAreMade
  <2> QED BY <1>4, <2>1, <2>2 DEF Loses, Delivery!Next, Delivery!Fault, Delivery!Become
<1>5. CASE Spoils
  <2> PICK s \in HeldScans : HeldScans \ {s} \subseteq HeldScans' /\ HeldScans' \subseteq HeldScans
    BY <1>5 DEF Spoils
  <2>1. s \in Scans /\ s \in made
    BY DEF Holding, HeldAreMade, ScannerTypeOK
  <2>2. torn /\ torn' = FALSE /\ made' = made /\ answered' = answered /\ faults' = faults
    BY <1>5 DEF Spoils
  <2>3. CASE s \in answered \/ s \in HeldScans'
    <3>1. Status' = Status
      BY <2>2, <2>3 DEF Status
    <3> QED BY <2>2, <3>1 DEF Delivery!Next, Delivery!Mend
  <2>4. CASE s \notin answered /\ s \notin HeldScans'
    <3>1. s \in Delivery!Held
      BY <2>1, <2>4 DEF Delivery!Held, Status
    <3>2. Status' = [x \in Scans |-> IF x \in {s} THEN "lost" ELSE Status[x]]
      BY <2>1, <2>2, <2>4 DEF Status
    <3> QED BY <2>2, <3>1, <3>2 DEF Delivery!Next, Delivery!Mend, Delivery!Become
  <2> QED BY <2>3, <2>4
<1> QED BY <1>1, <1>2, <1>3, <1>4, <1>5 DEF Kinds

(* The device implements ScanDelivery: with two threads, a file, requests  *)
(* served late and restarts, a scan is held until it is answered for, and  *)
(* only a fault of the device loses any, and the torn line it may leave    *)
(* one more.                                                               *)
THEOREM ScannerImplementsDelivery == Spec => ImplementsDelivery
<1>1. Init => Delivery!Init
  <2> SUFFICES ASSUME Init PROVE Delivery!Init
    OBVIOUS
  <2>1. HeldScans = {} /\ answered = {} /\ made = {} /\ faults = 0 /\ torn = FALSE
    BY NothingIn DEF Init, HeldScans
  <2> QED BY <2>1 DEF Delivery!Init, Status
<1>2. Holding /\ [Next]_vars => [Delivery!Next]_<<Status, faults, torn>>
  BY HoldingNext, KindsDeliver
<1> QED BY <1>1, <1>2, ScannerInvariant, PTL DEF Spec, ImplementsDelivery, Delivery!Spec
=============================================================================
