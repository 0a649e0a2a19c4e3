------------------------------ MODULE RemoteLog ------------------------------
(***************************************************************************)
(* The handler that ships log records to a collector.  The threads of the  *)
(* process log through it, one at a time (logging.Handler.handle holds the *)
(* handler's lock around emit, and so does shutdown around close); the     *)
(* flusher, a daemon thread, comes in between with the buffer's own lock   *)
(* alone.                                                                  *)
(***************************************************************************)
EXTENDS Naturals, Sequences, SequencesExt, FiniteSets

CONSTANTS
  Loggers,      \* the threads that log
  Flusher,      \* the thread of _flush_loop
  NoThread,     \* the handler's lock is free
  BatchSize,    \* batch_size
  LastRecord    \* bound: records logged

ASSUME RemoteLogAssumption ==
  /\ Flusher \notin Loggers /\ NoThread \notin Loggers \cup {Flusher}
  /\ BatchSize \in Nat \ {0}
  /\ LastRecord \in Nat

Threads == Loggers \cup {Flusher}

VARIABLES
  logged,    \* how many records were logged; they are numbered in order
  buffer,    \* _buf
  doing,     \* where each thread is
  batch,     \* what each has taken out of the buffer
  holder,    \* who holds the handler's lock
  stopping,  \* _stop
  received,  \* history: the batches the collector has
  refused,   \* history: those whose posting failed
  exited     \* the process has ended

remoteLogVars == <<logged, buffer, doing, batch, holder, stopping, received,
                   refused, exited>>

-----------------------------------------------------------------------------
RemoteLogInit ==
  /\ logged = 0 /\ buffer = <<>>
  /\ doing = [t \in Threads |-> "resting"]
  /\ batch = [t \in Threads |-> <<>>]
  /\ holder = NoThread
  /\ stopping = FALSE /\ exited = FALSE
  /\ received = <<>> /\ refused = <<>>

Turns(t, what) == doing' = [doing EXCEPT ![t] = what]

(* emit: a full buffer is flushed by the thread that filled it.  The       *)
(* variant waits for one record more.                                      *)
FullAfter(b) == Len(b) > BatchSize
Full(b) == Len(b) >= BatchSize
LogRecord(t) ==
  /\ ~exited /\ t \in Loggers /\ doing[t] = "resting" /\ holder = NoThread
  /\ logged < LastRecord
  /\ logged' = logged + 1
  /\ buffer' = Append(buffer, logged')
  /\ IF Full(buffer') THEN Turns(t, "flushing") /\ holder' = t
     ELSE UNCHANGED <<doing, holder>>
  /\ UNCHANGED <<batch, stopping, received, refused, exited>>

(* _flush: the buffer is swapped for an empty one under its lock ...       *)
SwapBuffer(t) ==
  /\ ~exited /\ doing[t] = "flushing"
  /\ batch' = [batch EXCEPT ![t] = buffer]
  /\ buffer' = <<>>
  /\ Turns(t, "posting")
  /\ UNCHANGED <<logged, holder, stopping, received, refused, exited>>

(* ... and posted without it; whatever goes wrong is swallowed, and the    *)
(* batch with it.                                                          *)
PostBatch(t) ==
  /\ ~exited /\ doing[t] = "posting"
  /\ \/ batch[t] = <<>> /\ UNCHANGED <<received, refused>>
     \/ batch[t] # <<>> /\ received' = Append(received, batch[t]) /\ UNCHANGED refused
     \/ batch[t] # <<>> /\ refused' = Append(refused, batch[t]) /\ UNCHANGED received
  /\ batch' = [batch EXCEPT ![t] = <<>>]
  /\ Turns(t, IF t = Flusher /\ stopping THEN "ended" ELSE "resting")
  /\ holder' = IF holder = t THEN NoThread ELSE holder
  /\ UNCHANGED <<logged, buffer, stopping, exited>>

(* _flush_loop asks for the stop before its sleep, never after it.         *)
FlusherWakes ==
  /\ ~exited /\ doing[Flusher] = "resting"
  /\ Turns(Flusher, "flushing")
  /\ UNCHANGED <<logged, buffer, batch, holder, stopping, received, refused, exited>>

(* close, by logging.shutdown at the end of the process.                   *)
CloseHandler(t) ==
  /\ ~exited /\ ~stopping /\ t \in Loggers
  /\ doing[t] = "resting" /\ holder = NoThread
  /\ stopping' = TRUE
  /\ Turns(t, "flushing") /\ holder' = t
  /\ UNCHANGED <<logged, buffer, batch, received, refused, exited>>

(* The process ends when its own threads are done; the flusher is a daemon *)
(* and is cut off wherever it is.                                          *)
ExitProcess ==
  /\ ~exited /\ stopping /\ \A t \in Loggers : doing[t] = "resting"
  /\ exited' = TRUE
  /\ UNCHANGED <<logged, buffer, doing, batch, holder, stopping, received, refused>>

RemoteLogNext ==
  \/ \E t \in Threads :
       LogRecord(t) \/ SwapBuffer(t) \/ PostBatch(t) \/ CloseHandler(t)
  \/ FlusherWakes \/ ExitProcess

RemoteLogSpec == RemoteLogInit /\ [][RemoteLogNext]_remoteLogVars

-----------------------------------------------------------------------------
(* Every record is in one place: the buffer, a thread's hands, with the    *)
(* collector or lost with a refused batch; none is sent twice and none     *)
(* forgotten, however the threads interleave.                              *)
Places == << buffer >> \o received \o refused
EachInOnePlace ==
  \A r \in 1..logged :
    Cardinality({i \in DOMAIN Places : r \in Range(Places[i])})
      + Cardinality({t \in Threads : r \in Range(batch[t])}) = 1

(* The collector never gets records of a batch out of order, and no batch  *)
(* is larger than configured: the buffer cannot outgrow it while a thread  *)
(* posts, as nobody else may log then.                                     *)
BatchesAreSmall ==
  /\ Len(buffer) <= BatchSize
  /\ \A i \in DOMAIN received :
       /\ Len(received[i]) <= BatchSize
       /\ \A j, k \in DOMAIN received[i] : j < k => received[i][j] < received[i][k]

(* What the end of the process costs: records logged after the close, at   *)
(* most a batch, and the one the flusher was about to post.                *)
LossAtExit ==
  exited => Len(buffer) <= BatchSize /\ \A t \in Loggers : batch[t] = <<>>

LogIsAccountedFor == EachInOnePlace /\ BatchesAreSmall /\ LossAtExit
=============================================================================
