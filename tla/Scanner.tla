------------------------------- MODULE Scanner -------------------------------
(***************************************************************************)
(* A runbase device (scanner.py) and its row on the server.  Two threads   *)
(* share an outbox on disk: the worker posts what the reader queues and    *)
(* buffers what it cannot deliver, the flusher empties the outbox and      *)
(* posts what it drained.  A post is a request the server may serve late,  *)
(* after the client's timeout, or an answer the client may never get.      *)
(* Everything but the outbox is memory: it goes with the process.          *)
(*                                                                         *)
(* Serving a request is two steps, the device guard and the processing,    *)
(* so that an administrator can change the device in between.  How         *)
(* overlapping deliveries of one scan agree on an outcome is Checkin's     *)
(* subject; here processing is the insert into the journal.                *)
(***************************************************************************)
EXTENDS Naturals, Sequences, SequencesExt

CONSTANTS
  Scans,
  MayFind,        \* what the server may find for each scan
  NoScan,         \* no scan in hand
  MaxFaults       \* bound on stops of the process and deaths of a thread

Found   == {"credited", "unpaid", "excluded"}
Threads == {"worker", "flusher"}

ASSUME ScannerConstants ==
  /\ MayFind \in [Scans -> SUBSET Found]
  /\ NoScan \notin Scans
  /\ MaxFaults \in Nat

VARIABLES
  process,     \* the scanner process: up, closing (reader ended), down
  alive,       \* its threads that have not died of an exception
  queue,       \* Sender._q
  unfinished,  \* _q.unfinished_tasks
  hand,        \* the scan the worker is delivering
  batch,       \* what the flusher drained and has still to post
  outbox,      \* outbox.jsonl, the lines that parse
  torn,        \* its last line is a torn one, with no end of line
  keyed,       \* the key the process runs with is the device's
  requests,    \* POSTs on their way to, or in, the server
  reply,       \* what each thread's post has come to
  device,      \* the status of the device's row
  journal,     \* checkin_scans of the device
  made,        \* scans read so far
  answered,    \* those the device dropped because the server answered
  green,       \* those shown green
  faults

file   == <<outbox, torn>>
memory == <<queue, unfinished, hand, batch, keyed>>
server == <<requests, device, journal>>
past   == <<made, answered, green>>
vars   == <<process, alive, memory, file, server, reply, past, faults>>

Rows    == {"none", "credited", "unpaid"}
Answers == {"green", "red", "4xx", "5xx"}

(* by: the thread that waits for the answer, or nobody any more. *)
Request == [scan : Scans, by : Threads \cup {"nobody"}, known : BOOLEAN]

ScannerTypeOK ==
  /\ process \in {"up", "closing", "down"}
  /\ alive \in [Threads -> BOOLEAN]
  /\ queue \in Seq(Scans) /\ batch \in Seq(Scans) /\ outbox \in Seq(Scans)
  /\ torn \in BOOLEAN
  /\ unfinished \in Nat
  /\ hand \in Scans \cup {NoScan}
  /\ keyed \in BOOLEAN
  /\ requests \subseteq Request
  /\ reply \in [Threads -> {"none", "wait"} \cup Answers]
  /\ device \in {"active", "disabled", "deleted"}
  /\ journal \in [Scans -> Rows]
  /\ made \subseteq Scans /\ answered \subseteq made /\ green \subseteq Scans
  /\ faults \in 0..MaxFaults

Init ==
  /\ process = "up"
  /\ alive = [t \in Threads |-> TRUE]
  /\ queue = <<>> /\ batch = <<>> /\ outbox = <<>>
  /\ torn = FALSE
  /\ unfinished = 0
  /\ hand = NoScan
  /\ keyed = TRUE
  /\ requests = {}
  /\ reply = [t \in Threads |-> "none"]
  /\ device = "active"
  /\ journal = [s \in Scans |-> "none"]
  /\ made = {} /\ answered = {} /\ green = {}
  /\ faults = 0

-----------------------------------------------------------------------------
Running == process # "down"

(* The scan a thread is posting. *)
InHand(t) ==
  IF t = "worker" THEN hand ELSE IF batch = <<>> THEN NoScan ELSE Head(batch)

(* The flusher's scans are counted as done tasks of the queue, too.        *)
MutantFinish(t) ==
  /\ reply' = [reply EXCEPT ![t] = "none"]
  /\ unfinished' = unfinished - 1
  /\ IF t = "worker" THEN hand' = NoScan /\ UNCHANGED batch
                     ELSE batch' = Tail(batch) /\ UNCHANGED hand
  /\ UNCHANGED <<queue, keyed>>

(* The thread has finished with the scan in its hand: task_done, or the    *)
(* next of the drained ones.                                               *)
Finish(t) ==
  /\ reply' = [reply EXCEPT ![t] = "none"]
  /\ IF t = "worker"
       THEN hand' = NoScan /\ unfinished' = unfinished - 1 /\ UNCHANGED batch
       ELSE batch' = Tail(batch) /\ UNCHANGED <<hand, unfinished>>
  /\ UNCHANGED <<queue, keyed>>

(* The reader: a code becomes a scan with an id of its own.                *)
Read(s) ==
  /\ process = "up" /\ s \notin made
  /\ made' = made \cup {s}
  /\ queue' = Append(queue, s)
  /\ unfinished' = unfinished + 1
  /\ UNCHANGED <<process, alive, hand, batch, keyed, file, server, reply,
                 answered, green, faults>>

(* The task is done as soon as it is taken. *)
MutantTake ==
  /\ Running /\ alive["worker"] /\ hand = NoScan /\ queue # <<>>
  /\ hand' = Head(queue)
  /\ queue' = Tail(queue)
  /\ unfinished' = IF unfinished > 1 THEN unfinished - 1 ELSE 0
  /\ UNCHANGED <<process, alive, batch, keyed, file, server, reply, past, faults>>

Take ==
  /\ Running /\ alive["worker"] /\ hand = NoScan /\ queue # <<>>
  /\ hand' = Head(queue)
  /\ queue' = Tail(queue)
  /\ UNCHANGED <<process, alive, unfinished, batch, keyed, file, server, reply,
                 past, faults>>

(* The file is read and emptied without its lock: a scan appended between  *)
(* the two is in neither.                                                  *)
MutantDrain ==
  /\ Running /\ alive["flusher"] /\ batch = <<>> /\ (outbox # <<>> \/ torn)
  /\ \E n \in 0..Len(outbox) : batch' = SubSeq(outbox, 1, n)
  /\ outbox' = <<>> /\ torn' = FALSE
  /\ UNCHANGED <<process, alive, queue, unfinished, hand, keyed, server, reply,
                 past, faults>>

(* The flusher wakes up: it empties the file, skips a line that does not   *)
(* parse, and posts from memory.                                           *)
Drain ==
  /\ Running /\ alive["flusher"] /\ batch = <<>> /\ (outbox # <<>> \/ torn)
  /\ batch' = outbox
  /\ outbox' = <<>> /\ torn' = FALSE
  /\ UNCHANGED <<process, alive, queue, unfinished, hand, keyed, server, reply,
                 past, faults>>

Post(t) ==
  /\ Running /\ alive[t] /\ InHand(t) # NoScan /\ reply[t] = "none"
  /\ reply' = [reply EXCEPT ![t] = "wait"]
  /\ requests' = requests \cup
                   {[scan |-> InHand(t), by |-> t, known |-> FALSE]}
  /\ UNCHANGED <<process, alive, memory, file, device, journal, past, faults>>

(* Whatever came with status 200 was a credit. *)
MutantDeliver(t) ==
  /\ Running /\ alive[t] /\ reply[t] \in {"green", "red", "4xx"}
  /\ answered' = answered \cup {InHand(t)}
  /\ green' = IF t = "worker" /\ reply[t] # "4xx" THEN green \cup {InHand(t)} ELSE green
  /\ Finish(t)
  /\ UNCHANGED <<process, alive, file, server, made, faults>>

(* A scan the server refuses is kept and posted again. *)
MutantDeliverRefused(t) ==
  /\ Running /\ alive[t] /\ reply[t] \in {"green", "red"}
  /\ answered' = answered \cup {InHand(t)}
  /\ green' = IF t = "worker" /\ reply[t] = "green" THEN green \cup {InHand(t)} ELSE green
  /\ Finish(t)
  /\ UNCHANGED <<process, alive, file, server, made, faults>>

(* delivered: any answer but a 5xx lets the scan go; the light is green    *)
(* when the body says so, and only the worker has a light.                 *)
Deliver(t) ==
  /\ Running /\ alive[t] /\ reply[t] \in {"green", "red", "4xx"}
  /\ answered' = answered \cup {InHand(t)}
  /\ green' = IF t = "worker" /\ reply[t] = "green" THEN green \cup {InHand(t)} ELSE green
  /\ Finish(t)
  /\ UNCHANGED <<process, alive, file, server, made, faults>>

(* The client gives up on a request: it never arrives, or nobody waits.    *)
Abandon(t) ==
  LET mine == {r \in requests : r.by = t} IN
  \/ requests' = requests \ mine
  \/ requests' = (requests \ mine) \cup {[r EXCEPT !.by = "nobody"] : r \in mine}

(* Outbox.append: a line of its own, but after a torn one they are one     *)
(* line, which does not parse.                                             *)
AppendLine(s) ==
  /\ outbox' = IF torn THEN outbox ELSE Append(outbox, s)
  /\ torn' = FALSE

(* Not delivered: a 5xx, no connection, or a timeout before the answer is  *)
(* in.  The scan goes to the end of the outbox.                            *)
Rebuffer(t) ==
  /\ Running /\ alive[t] /\ reply[t] # "none"
  /\ AppendLine(InHand(t))
  /\ Abandon(t)
  /\ Finish(t)
  /\ UNCHANGED <<process, alive, device, journal, past, faults>>

-----------------------------------------------------------------------------
(* The server's answer reaches the thread that still waits for it.         *)
Respond(r, a) ==
  /\ requests' = requests \ {r}
  /\ reply' = IF r.by \in Threads THEN [reply EXCEPT ![r.by] = a] ELSE reply

(* authenticateDevice, behind the throttle (429). *)
Guard(r) ==
  /\ ~r.known
  /\ \/ Respond(r, "4xx")
     \/ /\ device = "active" /\ keyed
        /\ requests' = (requests \ {r}) \cup {[r EXCEPT !.known = TRUE]}
        /\ UNCHANGED reply
  /\ UNCHANGED <<process, alive, memory, file, device, journal, past, faults>>

Light(row) == IF row = "credited" THEN "green" ELSE "red"

(* processScan: the row there is, or a new one; none for an excluded       *)
(* occurrence (404), none for a device deleted meanwhile (500).            *)
Process(r) ==
  /\ r.known
  /\ \/ journal[r.scan] # "none" /\ Respond(r, Light(journal[r.scan])) /\ UNCHANGED journal
     \/ /\ journal[r.scan] = "none"
        /\ \E found \in MayFind[r.scan] :
             \/ found = "excluded" /\ Respond(r, "4xx") /\ UNCHANGED journal
             \/ found # "excluded" /\ device = "deleted"
                  /\ Respond(r, "5xx") /\ UNCHANGED journal
             \/ found # "excluded" /\ device # "deleted"
                  /\ journal' = [journal EXCEPT ![r.scan] = found]
                  /\ Respond(r, Light(found))
  /\ UNCHANGED <<process, alive, memory, file, device, past, faults>>

(* The API is restarting or fails: 5xx from it or from the proxy. *)
Fail(r) ==
  /\ Respond(r, "5xx")
  /\ UNCHANGED <<process, alive, memory, file, device, journal, past, faults>>

-----------------------------------------------------------------------------
(* updateDevice({ status }). *)
SetStatus ==
  /\ device # "deleted"
  /\ device' \in {"active", "disabled"}
  /\ UNCHANGED <<process, alive, memory, file, requests, journal, reply, past, faults>>

(* rotateKey: the old key, which the process goes on using, is void.       *)
RotateKey ==
  /\ device # "deleted"
  /\ keyed' = FALSE
  /\ UNCHANGED <<process, alive, queue, unfinished, hand, batch, file, server, reply,
                 past, faults>>

(* deleteDevice: the journal goes with the device. *)
DeleteDevice ==
  /\ device # "deleted"
  /\ device' = "deleted"
  /\ journal' = [s \in Scans |-> "none"]
  /\ UNCHANGED <<process, alive, memory, file, requests, reply, past, faults>>

-----------------------------------------------------------------------------
Abandoned == {[r EXCEPT !.by = "nobody"] : r \in requests}

(* The process is gone, with everything that was only in its memory.       *)
Gone ==
  /\ faults < MaxFaults /\ faults' = faults + 1
  /\ process' = "down"
  /\ queue' = <<>> /\ unfinished' = 0 /\ hand' = NoScan /\ batch' = <<>>
  /\ requests' = Abandoned
  /\ reply' = [t \in Threads |-> "none"]
  /\ UNCHANGED <<alive, keyed, device, journal, past>>

(* systemd's SIGTERM: what was appended is in the file. *)
Kill == Running /\ Gone /\ UNCHANGED file

(* Nothing is flushed to the disk but by the system: a power cut takes the *)
(* end of the file, and may tear a line.                                   *)
PowerCut ==
  /\ Gone
  /\ \E n \in 0..Len(outbox) : outbox' = SubSeq(outbox, 1, n)
  /\ torn' \in BOOLEAN

(* The reader ends: end of input or Ctrl-C. *)
Close ==
  /\ process = "up" /\ process' = "closing"
  /\ UNCHANGED <<alive, memory, file, server, reply, past, faults>>

(* drain_and_wait: nothing unfinished, or ten seconds have passed.         *)
ExitDone    == process = "closing" /\ unfinished = 0 /\ Gone /\ UNCHANGED file
ExitTimeout == process = "closing" /\ unfinished > 0 /\ Gone /\ UNCHANGED file

(* Restart=always: the file is still there, and the key is read again from *)
(* the environment, where the operator may have put the new one; a request *)
(* still under way with a void key is a 401 that nobody hears.             *)
Start ==
  /\ process = "down" /\ process' = "up"
  /\ alive' = [t \in Threads |-> TRUE]
  /\ \/ UNCHANGED <<keyed, requests>>
     \/ ~keyed /\ keyed' = TRUE /\ requests' = {r \in requests : r.known}
  /\ UNCHANGED <<queue, unfinished, hand, batch, file, device, journal, reply, past, faults>>

(* An exception nobody catches ends the thread: a body cut short or not    *)
(* JSON, a write to a full disk, which may leave part of a line.  What it  *)
(* had in hand goes with it.                                               *)
Die(t) ==
  /\ Running /\ alive[t] /\ reply[t] # "none"
  /\ faults < MaxFaults /\ faults' = faults + 1
  /\ alive' = [alive EXCEPT ![t] = FALSE]
  /\ reply' = [reply EXCEPT ![t] = "none"]
  /\ IF t = "worker" THEN hand' = NoScan /\ UNCHANGED batch
                     ELSE batch' = <<>> /\ UNCHANGED hand
  /\ Abandon(t)
  /\ torn' \in {torn, TRUE}
  /\ UNCHANGED <<process, queue, unfinished, keyed, outbox, device, journal, past>>

-----------------------------------------------------------------------------
Device == \/ \E s \in Scans : Read(s)
          \/ Take \/ Drain \/ Close \/ ExitDone \/ ExitTimeout \/ Kill \/ PowerCut \/ Start
          \/ \E t \in Threads : Post(t) \/ Deliver(t) \/ Rebuffer(t) \/ Die(t)

Server == \E r \in requests : Guard(r) \/ Process(r) \/ Fail(r)

Admin == SetStatus \/ RotateKey \/ DeleteDevice

Next == Device \/ Server \/ Admin

(* A thread's request is looked at, and is answered.                       *)
Looked(t)  == \E r \in requests : r.by = t /\ Guard(r)
Settled(t) == \E r \in requests : r.by = t /\ Process(r) /\ reply'[t] # "5xx"

(* The threads keep running and the process is started again; and neither  *)
(* the server nor the network fails for ever, so that a post repeated      *)
(* often enough is served, and its answer arrives in time.                 *)
Fairness ==
  /\ WF_vars(Take) /\ WF_vars(Drain) /\ WF_vars(Start)
  /\ WF_vars(ExitDone \/ ExitTimeout)
  /\ \A t \in Threads :
       /\ WF_vars(Post(t))
       /\ WF_vars(Deliver(t) \/ Rebuffer(t))
       /\ SF_vars(Looked(t)) /\ SF_vars(Settled(t))
       /\ SF_vars(Deliver(t))

Spec == Init /\ [][Next]_vars /\ Fairness

-----------------------------------------------------------------------------
HeldScans == ToSet(queue) \cup ToSet(batch) \cup ToSet(outbox) \cup ({hand} \ {NoScan})

LostScans == made \ (answered \cup HeldScans)

Status == [s \in Scans |->
             IF s \in answered THEN "answered"
             ELSE IF s \in HeldScans THEN "held"
             ELSE IF s \in made THEN "lost" ELSE "unmade"]

(* Between the queue, the worker's hand, the flusher's list and the file   *)
(* no scan slips away: it leaves the device only once the server has       *)
(* answered, or by a fault of the device or the torn line it left.         *)
Delivery == INSTANCE ScanDelivery WITH status <- Status, faults <- faults, torn <- torn
ImplementsDelivery == Delivery!Spec

(* A green light is earned: a runner is shown one only if her scan is on   *)
(* the server's record as credited, unless the record went with the        *)
(* device.                                                                 *)
GreenIsOnRecord ==
  \A s \in green : journal[s] = "credited" \/ device = "deleted"

(* A clean shutdown that did not time out interrupts no scan the reader    *)
(* took: each has been answered for, or is in the flusher's hands.         *)
ShutdownWaitsForScans ==
  [][ExitDone => queue = <<>> /\ hand = NoScan]_vars

(* A scan once read leaves the device in the end: through outages,         *)
(* timeouts, restarts and new keys none is held for ever, as long as both  *)
(* threads live.                                                           *)
EventuallyAnswered ==
  \A s \in Scans : []<>(s \notin HeldScans \/ \E t \in Threads : ~alive[t])

(* An outage, a timeout, a closed connection loses none, before a fault or *)
(* after it, unless the fault has left a torn line.                        *)
OnlyFaultsLose == [][faults' = faults /\ ~torn => LostScans' \subseteq LostScans]_vars

(* A power cut that took lines the system had not flushed, or tore one.    *)
CutsFile == PowerCut /\ file' # file

(* A scan that is in the file outlives whatever happens to the device      *)
(* next, the end of its process among it: it is still held, or answered    *)
(* for, unless the disk itself lost it.                                    *)
FiledScanSurvives ==
  [][CutsFile \/ ToSet(outbox) \subseteq HeldScans' \cup answered']_vars

(* A scan that got into the file, even if the flusher has taken it out of  *)
(* there, stays on the device until it is answered for: a buffered scan    *)
(* "survives a network blip or reboot".  Lines that a power cut takes off  *)
(* the disk are not held against it.                                       *)
BufferedScanSurvives ==
  [][CutsFile \/ ToSet(outbox \o batch) \subseteq HeldScans' \cup answered']_vars
=============================================================================
