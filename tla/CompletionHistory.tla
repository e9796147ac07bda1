-------------------------- MODULE CompletionHistory --------------------------
(***************************************************************************)
(* The notifier with history variables that relate what the handlers saw   *)
(* to what was sent.  They only record: every step is a notifier's step.   *)
(***************************************************************************)
EXTENDS CompletionNotifier

VARIABLES
  sent,   \* every message ever sent, in order
  since   \* how many had been sent when the handler was pushed

historyVars == <<notifierVars, sent, since>>

HistoryInit ==
  /\ NotifierInit
  /\ sent = <<>>
  /\ since = [h \in Handlers |-> 0]

Record ==
  /\ sent' = IF Len(nqueue') > Len(nqueue)
             THEN Append(sent, nqueue'[Len(nqueue')]) ELSE sent
  /\ since' = [h \in Handlers |->
                  IF adding[h] # "yes" /\ adding'[h] = "yes" THEN Len(sent) ELSE since[h]]

HistoryNext == NotifierNext /\ Record

HistorySpec == HistoryInit /\ [][HistoryNext]_historyVars

-----------------------------------------------------------------------------
Position(h) == CHOOSE i \in DOMAIN handlers : handlers[i] = h

\* The message in delivery, if h's turn is still to come.
Pending(h) == IF nworker = "calling" /\ ncalls <= Position(h) THEN <<ncur>> ELSE <<>>

(***************************************************************************)
(* Every handler is told of every completion that was sent after it was    *)
(* pushed, exactly once and in sending order, whatever handlers are added  *)
(* in between.  What it has seen, what it is about to see and what is      *)
(* queued make up the sequence sent, less some of the first messages: none *)
(* of them may be one sent after the push.  Those sent before it are       *)
(* neither demanded nor forbidden: the documentation has handlers observe  *)
(* only tasks that complete after registration (manager.rs:245-247), but   *)
(* the worker calls a new handler for what is still queued as well.        *)
(***************************************************************************)
EveryMessageOnceInOrder ==
  \A h \in Handlers :
    adding[h] = "yes" =>
      \E k \in 0..since[h] :
        seen[h] \o Pending(h) \o nqueue = SubSeq(sent, k + 1, Len(sent))
=============================================================================
