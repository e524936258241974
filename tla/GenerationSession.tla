--------------------------- MODULE GenerationSession ---------------------------
(***************************************************************************)
(* generation.Session and the operations of generation.Service on it, each *)
(* one repository transaction.  The number of requirement messages stands  *)
(* for their texts; the requirement is the number that was confirmed, 0    *)
(* while nothing is.                                                       *)
(***************************************************************************)
EXTENDS Integers, GenerationConstants

CONSTANT MaxMessages    \* bound: how many messages a session may collect

ASSUME GenerationSessionAssumption == MaxMessages \in Nat \ {0}

VARIABLE session

SessionStatus == {"absent", "awaiting_confirmation", "queued", "generating",
                  "validating", "ready", "failed", "cancelled"}

TerminalSession == {"ready", "failed", "cancelled"}

allowedTransitions ==
    {<<"absent", "awaiting_confirmation">>,
     <<"awaiting_confirmation", "queued">>,
     <<"queued", "generating">>, <<"generating", "validating">>, <<"validating", "ready">>}
    \cup {"queued", "generating", "validating"} \X {"failed"}
    \cup {"awaiting_confirmation", "queued", "generating", "validating"} \X {"cancelled"}

Session == [status      : SessionStatus,
            messages    : 0..MaxMessages,
            requirement : 0..MaxMessages,
            version     : VersionIds \cup {NoVersion}]

NoSessionYet == [status |-> "absent", messages |-> 0, requirement |-> 0, version |-> NoVersion]

SessionInit == session = [s \in Sessions |-> NoSessionYet]

CanTransition(s, next) == <<session[s].status, next>> \in allowedTransitions

Transition(s, next) ==
    /\ CanTransition(s, next)
    /\ session' = [session EXCEPT ![s].status = next]

-----------------------------------------------------------------------------
\* NewSession and the first transition are one insert: nobody sees a draft.
Create(s) ==
    /\ CanTransition(s, "awaiting_confirmation")
    /\ session' = [session EXCEPT ![s].status = "awaiting_confirmation", ![s].messages = 1]

AddMessage(s) ==
    /\ session[s].status = "awaiting_confirmation"
    /\ session[s].messages < MaxMessages
    /\ session' = [session EXCEPT ![s].messages = @ + 1]

Confirm(s) ==
    /\ session[s].status = "awaiting_confirmation"
    /\ session[s].requirement = 0
    /\ CanTransition(s, "queued")
    /\ session' = [session EXCEPT ![s].status = "queued",
                                  ![s].requirement = session[s].messages]

\* Cancelling again is accepted and changes nothing; a ready or failed session
\* refuses (ErrConflict).
Cancel(s) ==
    \/ Transition(s, "cancelled")
    \/ session[s].status = "cancelled" /\ UNCHANGED session

StartGenerating(s) == Transition(s, "generating")
StartValidating(s) == Transition(s, "validating")

MarkReady(s, v) ==
    /\ CanTransition(s, "ready")
    /\ session' = [session EXCEPT ![s].status = "ready", ![s].version = v]

MarkFailedAlways(s) == session' = [session EXCEPT ![s].status = "failed"]

\* A terminal session is left as it is, without an error.
MarkFailed(s) ==
    IF session[s].status \in TerminalSession THEN UNCHANGED session
    ELSE Transition(s, "failed")

SessionNext ==
    \E s \in Sessions :
        \/ Create(s) \/ AddMessage(s) \/ Confirm(s) \/ Cancel(s)
        \/ StartGenerating(s) \/ StartValidating(s)
        \/ \E v \in VersionIds : MarkReady(s, v)
        \/ MarkFailed(s)

SessionSpec == SessionInit /\ [][SessionNext]_session

=============================================================================
