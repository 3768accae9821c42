---------------------------- MODULE UserContext ----------------------------
(***************************************************************************)
(* One virtual user as the runner drives it: prepare_turn before each      *)
(* request, append_history after each successful one.  The module states   *)
(* what context.py promises the runner; ScenarioRun implements it for      *)
(* every user at once.                                                     *)
(***************************************************************************)
EXTENDS ContextWindow

CONSTANT MaxTurns

ASSUME MaxTurnsAssumption == MaxTurns \in Nat

VARIABLES
    ctx,         \* the UserContext object
    turn,        \* number of the turn being prepared or in flight
    inflight,    \* a prepared request has been handed to the HTTP client
    compactions, \* compaction_events: the turns that compacted
    skipped,     \* turns recorded as context_overflow
    answered     \* turns that succeeded

vars == <<ctx, turn, inflight, compactions, skipped, answered>>

TypeOK ==
    /\ ctx \in Contexts
    /\ turn \in 1..MaxTurns + 1
    /\ inflight \in BOOLEAN
    /\ compactions \subseteq 1..MaxTurns
    /\ skipped \subseteq 1..MaxTurns
    /\ answered \subseteq 1..MaxTurns

Init ==
    /\ ctx \in {NewContext(j) : j \in Jitter}
    /\ turn = 1
    /\ inflight = FALSE
    /\ compactions = {} /\ skipped = {} /\ answered = {}

HasTurns == turn <= MaxTurns

(* prepare_turn; a turn that does not fit is skipped, any other is sent.   *)
Prepare ==
    /\ ~inflight /\ HasTurns
    /\ \E r \in PrepareOutcomes(ctx) :
          /\ ctx' = r.ctx
          /\ compactions' = IF r.compacted THEN compactions \cup {turn} ELSE compactions
          /\ IF r.overflow
             THEN turn' = turn + 1 /\ skipped' = skipped \cup {turn} /\ UNCHANGED inflight
             ELSE inflight' = TRUE /\ UNCHANGED <<turn, skipped>>
    /\ UNCHANGED answered

(* The turn succeeds and its exchange joins the history.                   *)
Answer ==
    /\ inflight
    /\ \E reply \in ReplySizes : ctx' = AppendHistory(ctx, turn, reply)
    /\ answered' = answered \cup {turn}
    /\ inflight' = FALSE
    /\ turn' = turn + 1
    /\ UNCHANGED <<compactions, skipped>>

(* The turn fails: the history is left as it was.                          *)
Fail ==
    /\ inflight
    /\ inflight' = FALSE
    /\ turn' = turn + 1
    /\ UNCHANGED <<ctx, compactions, skipped, answered>>

(* build_request returned None: the prepared turn is never sent.           *)
BuildFailed ==
    /\ ~inflight /\ HasTurns
    /\ \E r \in PrepareOutcomes(ctx) :
          /\ ~r.overflow
          /\ ctx' = r.ctx
          /\ compactions' = IF r.compacted THEN compactions \cup {turn} ELSE compactions
    /\ turn' = turn + 1
    /\ UNCHANGED <<inflight, skipped, answered>>

(* The user's loop is left early: its task is cancelled, or it sees the    *)
(* shutdown flag before its next turn.                                     *)
Stop ==
    /\ HasTurns
    /\ turn' = MaxTurns + 1
    /\ inflight' = FALSE
    /\ UNCHANGED <<ctx, compactions, skipped, answered>>

Finished == ~HasTurns /\ UNCHANGED vars

Next == Prepare \/ Answer \/ Fail \/ BuildFailed \/ Stop \/ Finished

Spec == Init /\ [][Next]_vars

-----------------------------------------------------------------------------
(* Growing the prefix "would push the base over and permanently trap the   *)
(* user in overflow" (context.py:79-81).  A turn is skipped only for a     *)
(* user whose base never fitted: it never compacts, sends or succeeds.     *)
NeverTrapped ==
    skipped # {} =>
        /\ ~Fits(BaseTokens(ctx))
        /\ answered = {} /\ compactions = {} /\ ~inflight

(* A request handed to the client leaves room in the window, whatever the  *)
(* compaction did: the check before the send is on the text that is sent.  *)
SentFits == inflight => Fits(ContextTokens(ctx))

(* The history is what the model may rely on: the answered turns since the *)
(* last compaction, each once and in the order they were asked.            *)
HistoryIsRecent ==
    /\ \A i, j \in DOMAIN ctx.history : i < j => ctx.history[i] < ctx.history[j]
    /\ {ctx.history[i] : i \in DOMAIN ctx.history}
          = {t \in answered : \A s \in compactions : s <= t}

(* Compaction is never idle: it only happens to a context that has         *)
(* something to forget, so two compactions have an answered turn between   *)
(* them and a user cannot spend its turns compacting.                      *)
CompactionForgets ==
    [][compactions' # compactions =>
          /\ ctx.history # <<>>
          /\ \A s \in compactions : \E t \in answered : s <= t /\ t < turn]_vars

(* Whether a user's base fits is settled when its prefix is generated: no  *)
(* sequence of growths, reverts, answers and failures changes it.          *)
FitIsForever == [][Fits(BaseTokens(ctx')) = Fits(BaseTokens(ctx))]_vars
=============================================================================
