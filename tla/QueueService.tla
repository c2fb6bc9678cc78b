---------------------------- MODULE QueueService ----------------------------
(***************************************************************************)
(* What the background diarization queue of queued.rs promises to the two  *)
(* ends that hold it, with no threads and no channels: requests are        *)
(* answered one by one in the order they were admitted, each with the      *)
(* outcome of its own file, and the receiving end is told that the queue   *)
(* is closed only after every admitted request has been answered.          *)
(***************************************************************************)
EXTENDS Naturals, Sequences

CONSTANTS
  Requests,    \* everything a sender may submit
  Answers,     \* everything the receiver may be handed
  Answer(_)    \* the answer a request must get

VARIABLES
  admitted,    \* requests for which try_push returned Ok, in order
  answered,    \* results handed to the receiver, in order
  sending,     \* some QueueSender handle is still alive
  status       \* what the receiver has been told last

serviceVars == <<admitted, answered, sending, status>>

ServiceTypeOK ==
  /\ admitted \in Seq(Requests)
  /\ answered \in Seq(Answers)
  /\ sending \in BOOLEAN
  /\ status \in {"open", "closed", "failed", "abandoned"}

ServiceInit ==
  /\ admitted = <<>>
  /\ answered = <<>>
  /\ sending = TRUE
  /\ status = "open"

(* A handle admits one more request.  Nothing is admitted once the         *)
(* receiver has been told that the queue ended.                            *)
Admit(r) ==
  /\ sending
  /\ status \in {"open", "abandoned"}
  /\ admitted' = Append(admitted, r)
  /\ UNCHANGED <<answered, sending, status>>

(* The receiver is handed the answer to the oldest unanswered request.     *)
Reply ==
  /\ status = "open"
  /\ Len(answered) < Len(admitted)
  /\ answered' = Append(answered, Answer(admitted[Len(answered) + 1]))
  /\ UNCHANGED <<admitted, sending, status>>

(* The last sender handle goes away.                                       *)
StopSending ==
  /\ sending
  /\ sending' = FALSE
  /\ UNCHANGED <<admitted, answered, status>>

(* The receiver is told Closed: nobody can submit, nothing is unanswered.  *)
Close ==
  /\ status = "open"
  /\ ~sending
  /\ Len(answered) = Len(admitted)
  /\ status' = "closed"
  /\ UNCHANGED <<admitted, answered, sending>>

(* The receiver is told WorkerPanicked.                                    *)
Fail ==
  /\ status = "open"
  /\ status' = "failed"
  /\ UNCHANGED <<admitted, answered, sending>>

(* The receiver is dropped.                                                *)
Abandon ==
  /\ status = "open"
  /\ status' = "abandoned"
  /\ UNCHANGED <<admitted, answered, sending>>

ServiceNext ==
  \/ \E r \in Requests : Admit(r)
  \/ Reply
  \/ StopSending
  \/ Close
  \/ Fail
  \/ Abandon

ServiceSpec == ServiceInit /\ [][ServiceNext]_serviceVars
=============================================================================
