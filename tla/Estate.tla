------------------------------- MODULE Estate -------------------------------
(***************************************************************************)
(* The parts of the system that run beside the message path and share no   *)
(* state with each other: the model router with its tool gateway, the idea *)
(* board, the task history, onboarding, the conversation stores, the       *)
(* migrations, the bridge from the old memory, the evaluation gate, the    *)
(* exporter of spans and the media seam of the door.                       *)
(*                                                                         *)
(* Disjoint parts need no interleaving: a behaviour of the whole is one    *)
(* behaviour of each, so every behaviour here moves one part and leaves    *)
(* the others at rest.  The invariants and the action properties of a part *)
(* speak of nothing else, and its liveness needs its own fairness only.    *)
(***************************************************************************)
EXTENDS ModelRouter, IdeaBoard, TaskHistory, Onboarding, ConversationThread, TurnHistory,
        Migrations, Backfill, EvalGate, Telemetry, MediaDoor

VARIABLE part    \* the part that moves

Parts == {"router", "board", "history", "onboarding", "thread", "talk", "migrations",
          "bridge", "evals", "telemetry", "media"}

\* A part at rest has the first of its initial states.
AtRest(p, resting) == part = p \/ resting

EstateInit ==
    /\ part \in Parts
    /\ RouterInit /\ AtRest("router", <<dep, ask>> = CHOOSE s \in Deployment \X [Task -> Ask] : TRUE)
    /\ BoardInit
    /\ HistoryInit
    /\ OnbInit /\ AtRest("onboarding", manifest = CHOOSE m \in [Run -> Manifest] : TRUE)
    /\ ThreadInit
    /\ TalkInit
    /\ MigrateInit /\ AtRest("migrations", applied = {})
    /\ FillInit /\ AtRest("bridge", bank = << >>)
    /\ EvalInit
    /\ ObsInit
    /\ MediaInit /\ AtRest("media", kindOf = [u \in Update |-> "none"])

Moves(p) == part = p /\ UNCHANGED part

EstateNext ==
    \/ /\ Moves("router") /\ RouterNext
       /\ UNCHANGED <<boardVars, historyVars, onbVars, threadVars, talkVars, migrateVars,
                      fillVars, evalVars, obsVars, mediaVars>>
    \/ /\ Moves("board") /\ BoardNext
       /\ UNCHANGED <<routerVars, historyVars, onbVars, threadVars, talkVars, migrateVars,
                      fillVars, evalVars, obsVars, mediaVars>>
    \/ /\ Moves("history") /\ HistoryNext
       /\ UNCHANGED <<routerVars, boardVars, onbVars, threadVars, talkVars, migrateVars,
                      fillVars, evalVars, obsVars, mediaVars>>
    \/ /\ Moves("onboarding") /\ OnbNext
       /\ UNCHANGED <<routerVars, boardVars, historyVars, threadVars, talkVars, migrateVars,
                      fillVars, evalVars, obsVars, mediaVars>>
    \/ /\ Moves("thread") /\ ThreadNext
       /\ UNCHANGED <<routerVars, boardVars, historyVars, onbVars, talkVars, migrateVars,
                      fillVars, evalVars, obsVars, mediaVars>>
    \/ /\ Moves("talk") /\ TalkNext
       /\ UNCHANGED <<routerVars, boardVars, historyVars, onbVars, threadVars, migrateVars,
                      fillVars, evalVars, obsVars, mediaVars>>
    \/ /\ Moves("migrations") /\ MigrateNext
       /\ UNCHANGED <<routerVars, boardVars, historyVars, onbVars, threadVars, talkVars,
                      fillVars, evalVars, obsVars, mediaVars>>
    \/ /\ Moves("bridge") /\ FillNext
       /\ UNCHANGED <<routerVars, boardVars, historyVars, onbVars, threadVars, talkVars,
                      migrateVars, evalVars, obsVars, mediaVars>>
    \/ /\ Moves("evals") /\ EvalNext
       /\ UNCHANGED <<routerVars, boardVars, historyVars, onbVars, threadVars, talkVars,
                      migrateVars, fillVars, obsVars, mediaVars>>
    \/ /\ Moves("telemetry") /\ ObsNext
       /\ UNCHANGED <<routerVars, boardVars, historyVars, onbVars, threadVars, talkVars,
                      migrateVars, fillVars, evalVars, mediaVars>>
    \/ /\ Moves("media") /\ MediaNext
       /\ UNCHANGED <<routerVars, boardVars, historyVars, onbVars, threadVars, talkVars,
                      migrateVars, fillVars, evalVars, obsVars>>

estateVars == <<part, routerVars, boardVars, historyVars, onbVars, threadVars, talkVars,
                migrateVars, fillVars, evalVars, obsVars, mediaVars>>

\* BoardFairness and MediaFairness, of the part that moves.
EstateFairness ==
    /\ \A k \in Tick : WF_boardVars(part = "board" /\ TickStep(k))
    /\ \A t \in WebThread : WF_mediaVars(part = "media" /\ Handles(t))
    /\ \A u \in Update : WF_mediaVars(part = "media" /\ \E t \in WebThread : Send(u, t))

EstateSpec == EstateInit /\ [][EstateNext]_estateVars /\ EstateFairness

-----------------------------------------------------------------------------
(* What must hold of more than one part.                                   *)

\* Every part keeps the shape its tables, locals and counters have.
EstateTypeOK ==
    /\ part \in Parts
    /\ RouterTypeOK /\ BoardTypeOK /\ HistoryTypeOK /\ OnbTypeOK /\ ThreadTypeOK
    /\ TalkTypeOK /\ MigrateTypeOK /\ FillTypeOK /\ EvalTypeOK /\ ObsTypeOK /\ MediaTypeOK

\* Whichever of its two records a conversation is read back from: everybody
\* reads their own, what was said is there as long as its topic lasts, and what
\* travels fits the budget and leaves out the oldest of it.
ConversationsAreServed ==
    /\ ThreadIsPrivate /\ SaidIsServed /\ ThreadPromptFits
    /\ OldestAreLeftOut /\ HistoryFits
=============================================================================
