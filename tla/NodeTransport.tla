--------------------------- MODULE NodeTransport ---------------------------
(***************************************************************************)
(* packages/native NodeChildProcessTransport: one native host process with *)
(* three pipes.  Opening, closing, a failing stream, the child's events    *)
(* and the two deadlines meet in one state machine; writes pass an         *)
(* admission control that counts bytes.  The client above it is any caller *)
(* of open, write and close.                                               *)
(***************************************************************************)
EXTENDS Integers, FiniteSets

CONSTANTS Frame, Size,  \* what the client writes, in bytes
          Maximum,      \* maxOutstandingWriteBytes
          Replies,      \* frames the host may send
          None

\* Size[f], Maximum and Replies are naturals.

VARIABLES state,     \* NodeProcessTransportState
          opened,    \* how open settled
          notified,  \* onDisconnect was called
          closing,   \* #shutdown: none, grace, force, over
          closed,    \* how close settled
          exit,      \* the write-once exit receipt
          spawned, exited, ended,  \* spawn, exit and close were observed
          accepting, outstanding,  \* the writer
          write,     \* what became of each frame
          framing,   \* the framer accepts bytes
          delivered, \* frames the client was given
          proc,      \* the child: none, unstarted, alive, dead
          sent,      \* frames the host sent
          silent     \* stdout has ended, as far as was read

connection == <<state, opened, notified, closing, closed>>
receipts == <<exit, spawned, exited, ended>>
writer == <<accepting, outstanding, write>>
reader == <<framing, delivered, silent>>
host == <<proc, sent>>
vars == <<connection, receipts, writer, reader, host>>

TypeOK ==
  /\ state \in {"idle", "opening", "open", "closing", "closed"}
  /\ opened \in {None, "ok", "failed"} /\ notified \in BOOLEAN
  /\ closing \in {"none", "grace", "force", "over"}
  /\ closed \in {None, "confirmed", "unconfirmed"}
  /\ exit \in {None, "exited", "notSpawned", "unconfirmed"}
  /\ spawned \in BOOLEAN /\ exited \in BOOLEAN /\ ended \in BOOLEAN
  /\ accepting \in BOOLEAN /\ outstanding \in 0 .. Maximum
  /\ write \in [Frame -> {"new", "refused", "admitted", "timedOut", "settled"}]
  /\ framing \in BOOLEAN /\ delivered \in 0 .. Replies /\ silent \in BOOLEAN
  /\ proc \in {"none", "unstarted", "alive", "dead"} /\ sent \in 0 .. Replies

Init == /\ state = "idle" /\ opened = None /\ notified = FALSE /\ closing = "none" /\ closed = None
        /\ exit = None /\ spawned = FALSE /\ exited = FALSE /\ ended = FALSE
        /\ accepting = FALSE /\ outstanding = 0 /\ write = [f \in Frame |-> "new"]
        /\ framing = FALSE /\ delivered = 0 /\ silent = FALSE
        /\ proc = "none" /\ sent = 0
-----------------------------------------------------------------------------
(* What several handlers do, synchronously                                 *)

Receipt(r) == exit' = IF exit = None THEN r ELSE exit

SettleOpen(how) == opened' = IF opened = None THEN how ELSE opened

\* close on a transport that is opening or open: #shutdown begins.
Shut == /\ state' = "closing"
        /\ closing' = "grace"
        /\ accepting' = FALSE
        /\ SettleOpen("failed")
        /\ closed' = closed

Unshut == UNCHANGED <<state, closing, closed, opened>> /\ accepting' = FALSE

\* Mutant: a failure while closing is told as well.
Fail_Always == /\ framing' = FALSE
               /\ notified' = TRUE
               /\ IF state \in {"opening", "open"} THEN Shut ELSE Unshut

\* #fail: tells the client once, and closes; nothing more is delivered.
Fail == /\ framing' = FALSE
        /\ IF state \in {"opening", "open"}
             THEN notified' = TRUE /\ Shut
             ELSE notified' = notified /\ Unshut
-----------------------------------------------------------------------------
(* The client's calls                                                      *)

\* open: spawn throws, or a child exists that may still fail to start.
Open(how) ==
  /\ state = "idle"
  /\ IF how = "throws"
       THEN /\ state' = "closed" /\ exit' = "notSpawned" /\ opened' = "failed" /\ ended' = TRUE
            /\ UNCHANGED <<proc, framing>>
       ELSE /\ state' = "opening" /\ proc' = how /\ framing' = TRUE
            /\ UNCHANGED <<exit, opened, ended>>
  /\ UNCHANGED <<notified, closing, closed, spawned, exited, writer, delivered, silent, sent>>

Admits(f) == accepting /\ Size[f] <= Maximum - outstanding

\* ProcessWriter.write: refused, or handed to the stream.  The stream may also
\* ask for a drain first.
Write(f, drained) ==
  /\ write[f] = "new"
  /\ state # "idle"
  /\ IF Admits(f) /\ drained
       THEN /\ write' = [write EXCEPT ![f] = "admitted"]
            /\ outstanding' = outstanding + Size[f]
       ELSE /\ write' = [write EXCEPT ![f] = "refused"]
            /\ UNCHANGED outstanding
  /\ UNCHANGED <<connection, receipts, accepting, reader, host>>

Close ==
  /\ closed = None /\ closing = "none"
  /\ \/ /\ state = "idle"
        /\ state' = "closed" /\ exit' = "notSpawned" /\ ended' = TRUE /\ closed' = "confirmed"
        /\ UNCHANGED <<opened, closing, accepting>>
     \/ /\ state = "closed" /\ closed' = "confirmed"
        /\ UNCHANGED <<state, opened, closing, exit, ended, accepting>>
     \/ state \in {"opening", "open"} /\ Shut /\ UNCHANGED <<exit, ended>>
  /\ UNCHANGED <<notified, spawned, exited, outstanding, write, reader, host>>
-----------------------------------------------------------------------------
(* The stream's callback and the timers                                    *)

\* Mutant: a write that timed out gives its bytes back at once.
WriteTimesOut_Returns(f) ==
  /\ write[f] = "admitted"
  /\ write' = [write EXCEPT ![f] = "timedOut"]
  /\ outstanding' = outstanding - Size[f]
  /\ Fail
  /\ UNCHANGED <<receipts, delivered, silent, host>>

WriteTimesOut(f) == /\ write[f] = "admitted"
                    /\ write' = [write EXCEPT ![f] = "timedOut"]
                    /\ outstanding' = outstanding
                    /\ Fail
                    /\ UNCHANGED <<receipts, delivered, silent, host>>

\* The callback, with an error or without, perhaps after the timeout.
Written(f) == /\ write[f] \in {"admitted", "timedOut"}
              /\ write' = [write EXCEPT ![f] = "settled"]
              /\ outstanding' = outstanding - Size[f]
              /\ UNCHANGED <<connection, receipts, accepting, reader, host>>

\* #startupExpired.
StartupExpires == /\ state = "opening"
                  /\ framing' = FALSE
                  /\ Shut
                  /\ UNCHANGED <<notified, receipts, outstanding, write, delivered, silent, host>>

\* Mutant: only the child's own end ends the grace.
GraceEnds_Untimed == /\ closing = "grace"
                     /\ ended
                     /\ closing' = "over" /\ state' = "closed" /\ closed' = "confirmed"
                     /\ UNCHANGED <<opened, notified, receipts, writer, reader, host>>

\* stdin is ended; the grace is over, and the child is killed if it is not closed.
GraceEnds == /\ closing = "grace"
             /\ IF ended
                  THEN closing' = "over" /\ state' = "closed" /\ closed' = "confirmed" /\ UNCHANGED proc
                  ELSE /\ proc = "alive" => spawned
                       /\ closing' = "force"
                       /\ proc' \in IF proc = "alive" THEN {"alive", "dead"} ELSE {proc}
                       /\ UNCHANGED <<state, closed>>
             /\ UNCHANGED <<opened, notified, receipts, writer, reader, sent>>

\* Mutant: a child that could not be closed is taken for closed.
ForceEnds_Confirmed ==
  /\ closing = "force"
  /\ closing' = "over" /\ state' = "closed" /\ closed' = "confirmed"
  /\ UNCHANGED exit
  /\ silent' = (silent \/ ~ended)
  /\ UNCHANGED <<opened, notified, spawned, exited, ended, writer, framing, delivered, host>>

\* The streams of an unconfirmed child are destroyed.
ForceEnds == /\ closing = "force"
             /\ closing' = "over" /\ state' = "closed"
             /\ closed' = IF ended THEN "confirmed" ELSE "unconfirmed"
             /\ IF ~ended /\ ~exited THEN Receipt("unconfirmed") ELSE UNCHANGED exit
             /\ silent' = (silent \/ ~ended)
             /\ UNCHANGED <<opened, notified, spawned, exited, ended, writer, framing, delivered, host>>
-----------------------------------------------------------------------------
(* The child's events                                                      *)

SpawnObserved == /\ proc \in {"alive", "dead"} /\ ~spawned
                 /\ spawned' = TRUE
                 /\ IF state = "opening"
                      THEN state' = "open" /\ accepting' = TRUE /\ SettleOpen("ok")
                      ELSE UNCHANGED <<state, accepting, opened>>
                 /\ UNCHANGED <<notified, closing, closed, exit, exited, ended, outstanding, write, reader, host>>

\* #processError of a child that did not start.
SpawnFails == /\ proc = "unstarted" /\ exit = None
              /\ exit' = "notSpawned"
              /\ IF state \in {"opening", "open"} THEN Shut ELSE Unshut
              /\ UNCHANGED <<notified, spawned, exited, ended, outstanding, write, reader, host>>

\* #observeExit: the writer stops; the connection ends with the pipes.
ExitObserved == /\ proc = "dead" /\ spawned /\ ~exited
                /\ exited' = TRUE
                /\ accepting' = FALSE
                /\ Receipt("exited")
                /\ UNCHANGED <<connection, spawned, ended, outstanding, write, reader, host>>

\* A chunk that completes a frame.
FrameArrives == /\ spawned /\ framing /\ ~silent
                /\ delivered < sent
                /\ delivered' = delivered + 1
                /\ UNCHANGED <<connection, receipts, writer, framing, silent, host>>

\* stdout ends, once everything was read; a host may close it and live on.
StdoutEnds == /\ proc # "none" /\ ~silent
              /\ proc = "alive" => spawned
              /\ framing => delivered = sent
              /\ silent' = TRUE
              /\ IF state \in {"opening", "open"}
                   THEN Fail
                   ELSE framing' = FALSE /\ UNCHANGED <<connection, accepting>>
              /\ UNCHANGED <<receipts, outstanding, write, delivered, host>>

\* A frame that is too large or no UTF-8; an error of stdout, stdin or the process.
StreamFails == /\ proc # "none" /\ ~silent
               /\ Fail
               /\ UNCHANGED <<receipts, outstanding, write, delivered, silent, host>>

\* #processClosed: the process and its pipes are over.
ChildCloses ==
  /\ ~ended /\ silent
  /\ proc = "dead" => spawned
  /\ proc \in {"dead", "unstarted"}
  /\ ended' = TRUE
  /\ exited' = (exited \/ spawned)
  /\ Receipt(IF spawned THEN "exited" ELSE "notSpawned")
  /\ IF state \in {"opening", "open"}
       THEN Fail
       ELSE framing' = FALSE /\ Unshut /\ UNCHANGED notified
  /\ UNCHANGED <<spawned, outstanding, write, delivered, silent, host>>

HostSends == /\ proc = "alive" /\ ~silent
             /\ sent < Replies
             /\ sent' = sent + 1
             /\ UNCHANGED <<connection, receipts, writer, reader, proc>>

HostDies == /\ proc = "alive"
            /\ proc' = "dead"
            /\ UNCHANGED <<connection, receipts, writer, reader, sent>>
-----------------------------------------------------------------------------
Timers == GraceEnds \/ ForceEnds \/ StartupExpires

Events == SpawnObserved \/ SpawnFails \/ ExitObserved \/ StdoutEnds \/ ChildCloses

Next == \/ \E how \in {"throws", "unstarted", "alive"} : Open(how)
        \/ \E f \in Frame, drained \in BOOLEAN : Write(f, drained)
        \/ Close
        \/ \E f \in Frame : WriteTimesOut(f) \/ Written(f)
        \/ Timers \/ Events \/ FrameArrives \/ StreamFails
        \/ HostSends \/ HostDies

Spec == Init /\ [][Next]_vars

\* Timers and the child's events are delivered; nothing makes a host answer or die.
FairSpec == Spec /\ WF_vars(Timers) /\ WF_vars(Events) /\ WF_vars(FrameArrives)
-----------------------------------------------------------------------------
(* Properties                                                              *)

BytesOf(f) == {f} \X (1 .. Size[f])
InWriter == {f \in Frame : write[f] \in {"admitted", "timedOut"}}
InStream == UNION {BytesOf(f) : f \in InWriter}

\* The byte account is what the stream still holds, and never more than the
\* maximum, also after a write that timed out.
AccountIsExact == outstanding = Cardinality(InStream) /\ outstanding <= Maximum

\* A receipt is true: a process told to have exited is dead, one told not to be
\* spawned never ran, and a confirmed close left none behind.
ReceiptIsTrue == /\ exit = "exited" => proc = "dead"
                 /\ exit = "notSpawned" => proc \in {"none", "unstarted"}
                 /\ closed = "confirmed" => proc # "alive"

\* A client is told of a lost connection once, only while it has one, and gets no
\* frame after that; a close of its own is no loss.
Told == /\ notified' # notified => state \in {"opening", "open"} /\ closing = "none"
        /\ notified => delivered' = delivered
LossIsToldOnce == [][Told]_vars

\* A connection keeps true accounts and tells of its end once.
ConnectionIsTrue == [](AccountIsExact /\ ReceiptIsTrue) /\ LossIsToldOnce

\* Every open and every close settles, and a dead host's connection ends.
ConnectionEnds == /\ (state = "opening") ~> (opened # None)
                  /\ (closing = "grace") ~> (closed # None)
                  /\ (state = "open" /\ proc = "dead") ~> (closed # None)
=============================================================================
