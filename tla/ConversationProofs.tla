------------------------- MODULE ConversationProofs -------------------------
(***************************************************************************)
(* Proofs about the conversations that users and agents have: one user's   *)
(* virtual context, for every window, prefix, increment, reply size and    *)
(* inaccuracy of the text generator; and an Anthropic agent behind the     *)
(* recording proxy, for every reply, order of its pieces, fault, number of *)
(* answers and cap.                                                        *)
(***************************************************************************)
EXTENDS UserContext, AnthropicSession, FiniteSetTheorems, SequenceTheorems,
        WellFoundedInduction, TLAPS

(* Text has a natural number of tokens whatever length is asked for.       *)
LEMMA GeneratedType ==
    ASSUME NEW n \in Int, NEW j \in Jitter PROVE GeneratedTokens(n, j) \in Nat
BY ContextAssumption DEF GeneratedTokens

(* Compaction empties the history, and the base it leaves fits whenever    *)
(* the base it started from does.                                          *)
LEMMA CompactedFits ==
    ASSUME NEW c \in Contexts, NEW j \in Jitter, Fits(BaseTokens(c))
    PROVE  /\ Compacted(c, j) \in Contexts
           /\ Compacted(c, j).history = <<>> /\ Compacted(c, j).tokens = 0
           /\ Fits(BaseTokens(Compacted(c, j)))
<1>1. Cleared(c) \in Contexts /\ Cleared(c).history = <<>> /\ Cleared(c).tokens = 0
      /\ Cleared(c).content = c.content /\ Cleared(c).prefix = c.prefix
  <2>1. <<>> \in Seq(Nat)
    BY EmptySeq
  <2>2. QED
    BY <2>1 DEF Cleared, Contexts
<1>2. Grown(c, j) \in Contexts /\ Grown(c, j).history = <<>> /\ Grown(c, j).tokens = 0
  <2>1. c.prefix + Increment \in Int
    BY ContextAssumption DEF Contexts
  <2>2. GeneratedTokens(c.prefix + Increment, j) \in Nat
    BY <2>1, GeneratedType
  <2>3. QED
    BY <1>1, <2>1, <2>2 DEF Grown, Cleared, Contexts
<1>3. QED
  BY <1>1, <1>2 DEF Compacted, BaseTokens

(* What prepare_turn returns: a turn that is not skipped fits, a turn is   *)
(* skipped exactly when the base does not fit, and only a context with a   *)
(* history is compacted.                                                   *)
LEMMA PrepareProperties ==
    ASSUME NEW c \in Contexts, c.history = <<>> => c.tokens = 0,
           NEW r \in PrepareOutcomes(c)
    PROVE  /\ r.ctx \in Contexts /\ r.compacted \in BOOLEAN
           /\ r.overflow <=> ~Fits(BaseTokens(c))
           /\ ~r.overflow => Fits(ContextTokens(r.ctx))
           /\ Fits(BaseTokens(r.ctx)) <=> Fits(BaseTokens(c))
           /\ r.ctx.history = <<>> => r.ctx.tokens = 0
           /\ r.compacted => ~r.overflow /\ r.ctx.history = <<>> /\ c.history # <<>>
           /\ ~r.compacted => r.ctx = c
<1>1. CASE ~Fits(ContextTokens(c)) /\ Fits(BaseTokens(c))
  <2>1. PICK j \in Jitter : r = Prepared(Compacted(c, j), TRUE)
    BY <1>1 DEF PrepareOutcomes
  <2>2. /\ r.ctx = Compacted(c, j) /\ r.compacted = TRUE
        /\ r.overflow = ~Fits(ContextTokens(Compacted(c, j)))
    BY <2>1 DEF Prepared
  <2>3. ContextTokens(Compacted(c, j)) = BaseTokens(Compacted(c, j))
    BY <1>1, CompactedFits, ContextAssumption DEF ContextTokens, BaseTokens, Contexts
  <2>4. c.history # <<>>
    BY <1>1, ContextAssumption DEF ContextTokens, BaseTokens, Contexts
  <2>5. /\ Compacted(c, j) \in Contexts /\ Compacted(c, j).history = <<>>
        /\ Compacted(c, j).tokens = 0 /\ Fits(BaseTokens(Compacted(c, j)))
    BY <1>1, CompactedFits
  <2>6. ~r.overflow
    BY <2>2, <2>3, <2>5
  <2>7. QED
    BY <1>1, <2>2, <2>3, <2>4, <2>5, <2>6
<1>2. CASE ~(~Fits(ContextTokens(c)) /\ Fits(BaseTokens(c)))
  <2>1. r = Prepared(c, FALSE)
    BY <1>2 DEF PrepareOutcomes
  <2>2. r.ctx = c /\ r.compacted = FALSE /\ r.overflow = ~Fits(ContextTokens(c))
    BY <2>1 DEF Prepared
  <2>3. Fits(ContextTokens(c)) => Fits(BaseTokens(c))
    BY ContextAssumption DEF Fits, ContextTokens, BaseTokens, Contexts
  <2>4. QED
    BY <1>2, <2>2, <2>3
<1>3. QED
  BY <1>1, <1>2

(* An appended exchange is the last of the history and has tokens.         *)
LEMMA AppendHistoryProperties ==
    ASSUME NEW c \in Contexts, NEW t \in Nat, NEW replied \in ReplySizes
    PROVE  /\ AppendHistory(c, t, replied) \in Contexts
           /\ AppendHistory(c, t, replied).history = Append(c.history, t)
           /\ AppendHistory(c, t, replied).content = c.content
<1>1. c.tokens + InputTokens + replied \in Nat
  BY ContextAssumption DEF Contexts
<1>2. Append(c.history, t) \in Seq(Nat)
  BY AppendProperties DEF Contexts
<1>3. QED
  BY <1>1, <1>2 DEF AppendHistory, Contexts

(* A new user's context is one.                                            *)
LEMMA NewContextType ==
    ASSUME NEW j \in Jitter
    PROVE  /\ NewContext(j) \in Contexts
           /\ NewContext(j).history = <<>> /\ NewContext(j).tokens = 0
<1>1. InitialPrefix \in Int /\ GeneratedTokens(InitialPrefix, j) \in Nat
  BY ContextAssumption, GeneratedType
<1>2. <<>> \in Seq(Nat)
  BY EmptySeq
<1>3. QED
  BY <1>1, <1>2 DEF NewContext, Contexts

-----------------------------------------------------------------------------
(* The type of the state, and where the turn numbers in it can be.         *)
TypeInv ==
    /\ TypeOK
    /\ \A t \in answered : t < turn
    /\ \A s \in compactions : s < turn \/ (s = turn /\ inflight)
    /\ inflight => turn <= MaxTurns

(* The history is empty exactly when it has no tokens: this is what makes  *)
(* "over the limit with history, under it without" mean that there is      *)
(* something to clear.                                                     *)
NoTokensNoHistory == ctx.history = <<>> => ctx.tokens = 0

(* NeverTrapped with its converse: a base that fits has skipped no turn.   *)
FitDecides ==
    /\ ~Fits(BaseTokens(ctx)) => answered = {} /\ compactions = {} /\ ~inflight
    /\ Fits(BaseTokens(ctx)) => skipped = {}

IInv == TypeInv /\ NoTokensNoHistory /\ FitDecides /\ SentFits /\ HistoryIsRecent

-----------------------------------------------------------------------------
(* The invariant holds of a context just created.                          *)
LEMMA InitIInv == Init => IInv
<1> SUFFICES ASSUME Init PROVE IInv
  OBVIOUS
<1>1. PICK j \in Jitter : ctx = NewContext(j)
  BY DEF Init
<1>2. ctx \in Contexts /\ ctx.history = <<>> /\ ctx.tokens = 0
  BY <1>1, NewContextType
<1>3. TypeInv
  <2>1. 1 \in 1..MaxTurns + 1
    BY MaxTurnsAssumption
  <2>2. TypeOK
    BY <1>2, <2>1 DEF Init, TypeOK
  <2>3. QED
    BY <2>2 DEF Init, TypeInv
<1>4. HistoryIsRecent
  <2>1. DOMAIN ctx.history = {}
    BY <1>2
  <2>2. QED
    BY <2>1 DEF Init, HistoryIsRecent
<1>5. QED
  BY <1>2, <1>3, <1>4 DEF Init, IInv, NoTokensNoHistory, FitDecides, SentFits

(* Preparing a turn, the part Prepare and BuildFailed share: whatever      *)
(* comes out, the history is what HistoryIsRecent says.                    *)
LEMMA PrepareHistory ==
    ASSUME IInv, turn <= MaxTurns, ~inflight, NEW r \in PrepareOutcomes(ctx),
           ctx' = r.ctx, answered' = answered,
           compactions' = IF r.compacted THEN compactions \cup {turn} ELSE compactions
    PROVE  HistoryIsRecent'
<1>1. /\ r.compacted \in BOOLEAN
      /\ r.compacted => r.ctx.history = <<>>
      /\ ~r.compacted => r.ctx = ctx
  BY PrepareProperties DEF IInv, TypeInv, TypeOK, NoTokensNoHistory
<1>2. CASE r.compacted
  <2>1. DOMAIN ctx'.history = {}
    BY <1>1, <1>2
  <2>2. {t \in answered' : \A s \in compactions' : s <= t} = {}
    <3>1. turn \in compactions' /\ turn \in Int
      BY <1>2, MaxTurnsAssumption DEF IInv, TypeInv, TypeOK
    <3>2. \A t \in answered' : t \in Int /\ t < turn
      BY MaxTurnsAssumption DEF IInv, TypeInv, TypeOK
    <3>3. \A t \in answered' : ~(turn <= t)
      BY <3>1, <3>2
    <3>4. QED
      BY <3>1, <3>3
  <2>3. QED
    BY <2>1, <2>2 DEF HistoryIsRecent
<1>3. CASE ~r.compacted
  BY <1>1, <1>3 DEF IInv, HistoryIsRecent
<1>4. QED
  BY <1>1, <1>2, <1>3

(* prepare_turn preserves the invariant.                                   *)
LEMMA PrepareStep == ASSUME IInv, Prepare PROVE IInv'
<1>1. PICK r \in PrepareOutcomes(ctx) :
         /\ ctx' = r.ctx
         /\ compactions' = IF r.compacted THEN compactions \cup {turn} ELSE compactions
         /\ IF r.overflow
            THEN turn' = turn + 1 /\ skipped' = skipped \cup {turn} /\ UNCHANGED inflight
            ELSE inflight' = TRUE /\ UNCHANGED <<turn, skipped>>
  BY DEF Prepare
<1>2. ~inflight /\ turn <= MaxTurns /\ answered' = answered
  BY DEF Prepare, HasTurns
<1>3. /\ r.ctx \in Contexts /\ r.compacted \in BOOLEAN
      /\ r.overflow <=> ~Fits(BaseTokens(ctx))
      /\ ~r.overflow => Fits(ContextTokens(r.ctx))
      /\ Fits(BaseTokens(r.ctx)) <=> Fits(BaseTokens(ctx))
      /\ r.ctx.history = <<>> => r.ctx.tokens = 0
      /\ r.compacted => ~r.overflow /\ r.ctx.history = <<>> /\ ctx.history # <<>>
      /\ ~r.compacted => r.ctx = ctx
  BY PrepareProperties DEF IInv, TypeInv, TypeOK, NoTokensNoHistory
<1>4. HistoryIsRecent'
  BY <1>1, <1>2, PrepareHistory
<1>5. CASE r.overflow
  <2>1. UNCHANGED <<ctx, compactions, inflight, answered>>
        /\ turn' = turn + 1 /\ skipped' = skipped \cup {turn}
    BY <1>1, <1>2, <1>3, <1>5
  <2>2. TypeInv'
    BY <1>2, <2>1, MaxTurnsAssumption DEF IInv, TypeInv, TypeOK
  <2>3. FitDecides'
    BY <1>3, <1>5, <2>1 DEF IInv, FitDecides
  <2>4. QED
    BY <1>4, <2>1, <2>2, <2>3 DEF IInv, NoTokensNoHistory, SentFits
<1>6. CASE ~r.overflow
  <2>1. inflight' = TRUE /\ turn' = turn /\ skipped' = skipped
    BY <1>1, <1>6
  <2>2. TypeInv'
    BY <1>1, <1>2, <1>3, <2>1, MaxTurnsAssumption DEF IInv, TypeInv, TypeOK
  <2>3. FitDecides'
    BY <1>1, <1>2, <1>3, <1>6, <2>1 DEF IInv, FitDecides
  <2>4. SentFits'
    BY <1>1, <1>3, <1>6 DEF SentFits
  <2>5. NoTokensNoHistory'
    BY <1>1, <1>3 DEF NoTokensNoHistory
  <2>6. QED
    BY <1>4, <2>2, <2>3, <2>4, <2>5 DEF IInv
<1>7. QED
  BY <1>5, <1>6

(* prepare_turn followed by a request that cannot be built preserves it.   *)
LEMMA BuildFailedStep == ASSUME IInv, BuildFailed PROVE IInv'
<1>1. PICK r \in PrepareOutcomes(ctx) :
         /\ ~r.overflow
         /\ ctx' = r.ctx
         /\ compactions' = IF r.compacted THEN compactions \cup {turn} ELSE compactions
  BY DEF BuildFailed
<1>2. /\ ~inflight /\ turn <= MaxTurns /\ answered' = answered
      /\ turn' = turn + 1 /\ inflight' = inflight /\ skipped' = skipped
  BY DEF BuildFailed, HasTurns
<1>3. /\ r.ctx \in Contexts /\ r.compacted \in BOOLEAN
      /\ r.overflow <=> ~Fits(BaseTokens(ctx))
      /\ Fits(BaseTokens(r.ctx)) <=> Fits(BaseTokens(ctx))
      /\ r.ctx.history = <<>> => r.ctx.tokens = 0
  BY PrepareProperties DEF IInv, TypeInv, TypeOK, NoTokensNoHistory
<1>4. HistoryIsRecent'
  BY <1>1, <1>2, PrepareHistory
<1>5. TypeInv'
  BY <1>1, <1>2, <1>3, MaxTurnsAssumption DEF IInv, TypeInv, TypeOK
<1>6. FitDecides'
  BY <1>1, <1>2, <1>3 DEF IInv, FitDecides
<1>7. NoTokensNoHistory'
  BY <1>1, <1>3 DEF NoTokensNoHistory
<1>8. QED
  BY <1>2, <1>4, <1>5, <1>6, <1>7 DEF IInv, SentFits

(* append_history preserves it.                                            *)
LEMMA AnswerStep == ASSUME IInv, Answer PROVE IInv'
<1>1. PICK replied \in ReplySizes : ctx' = AppendHistory(ctx, turn, replied)
  BY DEF Answer
<1>2. /\ inflight /\ answered' = answered \cup {turn} /\ inflight' = FALSE
      /\ turn' = turn + 1 /\ compactions' = compactions /\ skipped' = skipped
  BY DEF Answer
<1>3. /\ ctx' \in Contexts /\ ctx'.history = Append(ctx.history, turn)
      /\ ctx'.content = ctx.content
  <2>1. turn \in Nat /\ ctx \in Contexts
    BY MaxTurnsAssumption DEF IInv, TypeInv, TypeOK
  <2>2. QED
    BY <1>1, <2>1, AppendHistoryProperties
<1>4. TypeInv'
  <2>1. turn \in 1..MaxTurns /\ turn + 1 \in 1..MaxTurns + 1
    BY <1>2, MaxTurnsAssumption DEF IInv, TypeInv, TypeOK
  <2>2. TypeOK'
    BY <1>2, <1>3, <2>1 DEF IInv, TypeInv, TypeOK
  <2>3. /\ \A t \in answered' : t < turn + 1
        /\ \A s \in compactions' : s < turn + 1
    BY <1>2, <2>1 DEF IInv, TypeInv, TypeOK
  <2>4. QED
    BY <1>2, <2>2, <2>3 DEF TypeInv
<1>5. /\ ctx'.history # <<>> /\ DOMAIN ctx'.history = 1..Len(ctx.history) + 1
      /\ Len(ctx.history) \in Nat /\ DOMAIN ctx.history = 1..Len(ctx.history)
      /\ \A i \in 1..Len(ctx.history) : ctx'.history[i] = ctx.history[i]
      /\ ctx'.history[Len(ctx.history) + 1] = turn
  BY <1>3, AppendProperties, LenProperties DEF IInv, TypeInv, TypeOK, Contexts
<1>6. FitDecides'
  BY <1>2, <1>3 DEF IInv, FitDecides, BaseTokens, Fits
<1>7. HistoryIsRecent'
  <2>1. \A i \in 1..Len(ctx.history) : ctx.history[i] \in answered
    BY <1>5 DEF IInv, HistoryIsRecent
  <2>2. \A i \in 1..Len(ctx.history) : ctx.history[i] < turn
    BY <2>1 DEF IInv, TypeInv, TypeOK
  <2>3. \A i, j \in DOMAIN ctx'.history : i < j => ctx'.history[i] < ctx'.history[j]
    BY <1>5, <2>2 DEF IInv, HistoryIsRecent
  <2>4. {ctx'.history[i] : i \in DOMAIN ctx'.history}
          = {ctx.history[i] : i \in DOMAIN ctx.history} \cup {turn}
    <3> DEFINE n == Len(ctx.history)
               old == {ctx.history[i] : i \in 1..n}
               new == {ctx'.history[i] : i \in 1..n + 1}
    <3>1. n \in Nat /\ 1..n + 1 = 1..n \cup {n + 1}
      BY <1>5
    <3>2. ASSUME NEW i \in 1..n + 1 PROVE ctx'.history[i] \in old \cup {turn}
      <4>1. CASE i \in 1..n
        BY <1>5, <4>1
      <4>2. CASE i = n + 1
        BY <1>5, <4>2
      <4>3. QED
        BY <3>1, <4>1, <4>2
    <3>3. old \subseteq new
      BY <1>5, <3>1
    <3>4. turn \in new
      <4>1. n + 1 \in 1..n + 1
        BY <3>1
      <4>2. turn = ctx'.history[n + 1]
        BY <1>5
      <4>3. QED
        BY <4>1, <4>2
    <3>5. QED
      BY <1>5, <3>2, <3>3, <3>4
  <2>5. {t \in answered' : \A s \in compactions' : s <= t}
          = {t \in answered : \A s \in compactions : s <= t} \cup {turn}
    BY <1>2, SMT DEF IInv, TypeInv, TypeOK
  <2>6. QED
    BY <2>3, <2>4, <2>5 DEF IInv, HistoryIsRecent
<1>8. QED
  BY <1>2, <1>4, <1>5, <1>6, <1>7 DEF IInv, NoTokensNoHistory, SentFits

(* Every step of a user preserves the invariant.                           *)
LEMMA NextIInv == ASSUME IInv, [Next]_vars PROVE IInv'
<1>1. CASE Prepare
  BY <1>1, PrepareStep
<1>2. CASE Answer
  BY <1>2, AnswerStep
<1>3. CASE BuildFailed
  BY <1>3, BuildFailedStep
<1>4. CASE Fail \/ Stop
  <2>1. /\ UNCHANGED <<ctx, compactions, skipped, answered>> /\ inflight' = FALSE
        /\ turn' > turn /\ turn' \in 1..MaxTurns + 1 /\ turn \in 1..MaxTurns
    BY <1>4, MaxTurnsAssumption DEF Fail, Stop, HasTurns, IInv, TypeInv, TypeOK
  <2>2. TypeInv'
    <3>1. TypeOK'
      BY <2>1 DEF IInv, TypeInv, TypeOK
    <3>2. /\ \A t \in answered : t < turn'
          /\ \A s \in compactions : s < turn'
      BY <2>1, MaxTurnsAssumption DEF IInv, TypeInv, TypeOK
    <3>3. QED
      BY <2>1, <3>1, <3>2 DEF TypeInv
  <2>3. QED
    BY <2>1, <2>2 DEF IInv, NoTokensNoHistory, FitDecides, SentFits, HistoryIsRecent
<1>5. CASE UNCHANGED vars
  BY <1>5 DEF vars, IInv, TypeInv, TypeOK, NoTokensNoHistory, FitDecides, SentFits, HistoryIsRecent
<1>6. QED
  BY <1>1, <1>2, <1>3, <1>4, <1>5 DEF Next, Finished

(* The inductive invariant holds throughout the life of a context          *)
(* (prepare_turn, append_history).                                         *)
THEOREM Invariance == Spec => []IInv
<1>1. Init => IInv
  BY InitIInv
<1>2. IInv /\ [Next]_vars => IInv'
  BY NextIInv
<1>3. QED
  BY <1>1, <1>2, PTL DEF Spec

(* Type correctness.                                                       *)
THEOREM TypeCorrect == Spec => []TypeOK
<1>1. IInv => TypeOK
  BY DEF IInv, TypeInv
<1>2. QED
  BY <1>1, Invariance, PTL

(* A user whose base fits never skips a turn; one whose base does not      *)
(* never sends, answers or compacts: context.py:79-81 for every window.    *)
THEOREM NoUserIsTrapped == Spec => []NeverTrapped
<1>1. IInv => NeverTrapped
  BY DEF IInv, FitDecides, NeverTrapped
<1>2. QED
  BY <1>1, Invariance, PTL

(* Every request that is sent leaves room in the window.                   *)
THEOREM SentRequestsFit == Spec => []SentFits
<1>1. IInv => SentFits
  BY DEF IInv
<1>2. QED
  BY <1>1, Invariance, PTL

(* The history is exactly the answered turns since the last compaction.    *)
THEOREM HistoryIsExact == Spec => []HistoryIsRecent
<1>1. IInv => HistoryIsRecent
  BY DEF IInv
<1>2. QED
  BY <1>1, Invariance, PTL

(* Whether the base fits never changes, whatever the sequence of growths,  *)
(* reverts, answers and failures.                                          *)
THEOREM FitNeverChanges == Spec => FitIsForever
<1>1. ASSUME IInv, Next PROVE Fits(BaseTokens(ctx')) = Fits(BaseTokens(ctx))
  <2>1. CASE Prepare \/ BuildFailed
    <3>1. PICK r \in PrepareOutcomes(ctx) : ctx' = r.ctx
      BY <2>1 DEF Prepare, BuildFailed
    <3>2. ctx \in Contexts /\ (ctx.history = <<>> => ctx.tokens = 0)
      BY <1>1 DEF IInv, TypeInv, TypeOK, NoTokensNoHistory
    <3>3. Fits(BaseTokens(r.ctx)) <=> Fits(BaseTokens(ctx))
      BY <3>2, PrepareProperties
    <3>4. QED
      BY <3>1, <3>3 DEF Fits
  <2>2. CASE Answer
    <3>1. PICK replied \in ReplySizes : ctx' = AppendHistory(ctx, turn, replied)
      BY <2>2 DEF Answer
    <3>2. ctx \in Contexts /\ turn \in Nat
      BY <1>1, MaxTurnsAssumption DEF IInv, TypeInv, TypeOK
    <3>3. ctx'.content = ctx.content
      BY <3>1, <3>2, AppendHistoryProperties
    <3>4. QED
      BY <3>3 DEF BaseTokens
  <2>3. CASE Fail \/ Stop \/ Finished
    BY <2>3 DEF Fail, Stop, Finished, vars
  <2>4. QED
    BY <1>1, <2>1, <2>2, <2>3 DEF Next
<1>2. IInv /\ [Next]_vars => [Fits(BaseTokens(ctx')) = Fits(BaseTokens(ctx))]_vars
  BY <1>1
<1>3. QED
  BY <1>2, Invariance, PTL DEF Spec, FitIsForever

(* Compaction only happens to a context with a history, and between two of *)
(* them there is an answered turn.                                         *)
THEOREM CompactionIsNeverIdle == Spec => CompactionForgets
<1> DEFINE Forgets ==
        compactions' # compactions =>
            /\ ctx.history # <<>>
            /\ \A s \in compactions : \E t \in answered : s <= t /\ t < turn
<1>1. ASSUME IInv, Next, compactions' # compactions PROVE Forgets
  <2>1. PICK r \in PrepareOutcomes(ctx) :
           compactions' = IF r.compacted THEN compactions \cup {turn} ELSE compactions
    BY <1>1 DEF Next, Prepare, BuildFailed, Answer, Fail, Stop, Finished, vars
  <2>2. ctx \in Contexts /\ (ctx.history = <<>> => ctx.tokens = 0)
    BY <1>1 DEF IInv, TypeInv, TypeOK, NoTokensNoHistory
  <2>3. r.compacted
    BY <1>1, <2>1
  <2>4. ctx.history # <<>>
    BY <2>2, <2>3, PrepareProperties
  <2>5. 1 \in DOMAIN ctx.history
    BY <2>2, <2>4, EmptySeq, LenProperties DEF Contexts
  <2>6. ctx.history[1] \in {t \in answered : \A s \in compactions : s <= t}
    BY <1>1, <2>5 DEF IInv, HistoryIsRecent
  <2>7. \A s \in compactions : s <= ctx.history[1]
    BY <2>6
  <2>8. ctx.history[1] \in answered /\ ctx.history[1] < turn
    BY <1>1, <2>6 DEF IInv, TypeInv
  <2>9. QED
    BY <2>4, <2>7, <2>8
<1>2. IInv /\ [Next]_vars => [Forgets]_vars
  BY <1>1
<1>3. QED
  BY <1>2, Invariance, PTL DEF Spec, CompactionForgets

-----------------------------------------------------------------------------
(***************************************************************************)
(* An Anthropic agent behind the proxy.  The translations are folds,       *)
(* filters and sequences put together, so there are first, without         *)
(* induction, the facts about those: a run of steps is followed to the     *)
(* first place where it would go wrong.  Then what is in an answer and     *)
(* what a client reads out of it (AnswersAreWhole), what a request carries *)
(* of a conversation (NothingGetsLost), and what the trace of a session    *)
(* says of its recording (TracesAreTheRecording).                          *)
(***************************************************************************)

(* A set of numbers has a least one.                                       *)
LEMMA LeastOf ==
    ASSUME NEW S \in SUBSET Nat, S # {}
    PROVE  \E m \in S : \A i \in S : m <= i
<1>1. PICK m \in S : \A i \in S : ~(<<i, m>> \in OpToRel(<, Nat))
  BY NatLessThanWellFounded, WFMin
<1>2. \A i \in S : ~(i < m)
  BY <1>1 DEF OpToRel
<1>3. QED
  BY <1>2

(* Min gives it.                                                           *)
LEMMA MinOf ==
    ASSUME NEW S \in SUBSET Nat, S # {}
    PROVE  Min(S) \in S /\ \A i \in S : Min(S) <= i
BY LeastOf DEF Min

(* A bounded one has a greatest one.                                       *)
LEMMA GreatestOf ==
    ASSUME NEW n \in Nat, NEW S \in SUBSET (0..n), S # {}
    PROVE  Max(S) \in S /\ \A i \in S : i <= Max(S)
<1> DEFINE T == {n - i : i \in S}
<1>1. T \in SUBSET Nat /\ T # {}
  <2>1. \A i \in S : i \in 0..n /\ n - i \in Nat
    OBVIOUS
  <2>2. T \in SUBSET Nat
    BY <2>1
  <2>3. \E i \in S : n - i \in T
    OBVIOUS
  <2>4. QED
    BY <2>2, <2>3
<1>2. PICK m \in T : \A i \in T : m <= i
  <2> HIDE DEF T
  <2>1. QED
    BY <1>1, LeastOf
<1>3. PICK k \in S : m = n - k
  OBVIOUS
<1>4. \A i \in S : k >= i
  <2>1. \A i \in S : n - i \in T /\ i \in Int
    OBVIOUS
  <2>2. k \in Int
    OBVIOUS
  <2> HIDE DEF T
  <2>3. QED
    BY <1>2, <1>3, <2>1, <2>2
<1>5. QED
  BY <1>4 DEF Max

(* Induction up to n, on the set of numbers where something fails.         *)
LEMMA NeverWrong ==
    ASSUME NEW n \in Nat, NEW Wrong \in SUBSET (0..n), 0 \notin Wrong,
           \A i \in 1..n : i - 1 \notin Wrong => i \notin Wrong
    PROVE  Wrong = {}
<1> SUFFICES ASSUME Wrong # {} PROVE FALSE
  OBVIOUS
<1>1. Wrong \in SUBSET Nat
  OBVIOUS
<1>2. PICK m \in Wrong : \A i \in Wrong : m <= i
  BY <1>1, LeastOf
<1>3. m \in 1..n /\ m - 1 \notin Wrong
  BY <1>2
<1>4. QED
  BY <1>3

(* Two runs that take the same steps from the same start end the same.     *)
LEMMA SameRun ==
    ASSUME NEW n \in Nat, NEW f, NEW g, f[0] = g[0],
           \A i \in 1..n : f[i - 1] = g[i - 1] => f[i] = g[i]
    PROVE  f[n] = g[n]
<1> DEFINE Wrong == {i \in 0..n : f[i] # g[i]}
<1>1. Wrong \in SUBSET (0..n) /\ 0 \notin Wrong
  OBVIOUS
<1>2. \A i \in 1..n : i - 1 \notin Wrong => i \notin Wrong
  OBVIOUS
<1>3. Wrong = {}
  <2> HIDE DEF Wrong
  <2>1. QED
    BY <1>1, <1>2, NeverWrong
<1>4. QED
  BY <1>3

(* A run stays where its steps lead.                                       *)
LEMMA RunWithin ==
    ASSUME NEW n \in Nat, NEW A, NEW f, f[0] \in A,
           \A i \in 1..n : f[i - 1] \in A => f[i] \in A
    PROVE  \A i \in 0..n : f[i] \in A
<1> DEFINE Wrong == {i \in 0..n : f[i] \notin A}
<1>1. Wrong \in SUBSET (0..n) /\ 0 \notin Wrong
  OBVIOUS
<1>2. \A i \in 1..n : i - 1 \notin Wrong => i \notin Wrong
  OBVIOUS
<1>3. Wrong = {}
  <2> HIDE DEF Wrong
  <2>1. QED
    BY <1>1, <1>2, NeverWrong
<1>4. QED
  BY <1>3

(* A run along n steps, and a fold over the subsets of n positions.        *)
IsRun(f, n, base, step) == f[0] = base /\ \A i \in 1..n : f[i] = step[<<i, f[i - 1]>>]
IsFold(it, n, base, step) ==
    \A S \in SUBSET (1..n) :
        it[S] = IF S = {} THEN base ELSE step[<<Max(S), it[S \ {Max(S)}]>>]

(* A run along n steps exists.                                             *)
LEMMA RunExists ==
    ASSUME NEW n \in Nat, NEW A, NEW base \in A, NEW step \in [(1..n) \X A -> A]
    PROVE  \E f \in [0..n -> A] : IsRun(f, n, base, step)
<1> DEFINE Is(k, f) == f[0] = base /\ \A i \in 1..k : f[i] = step[<<i, f[i - 1]>>]
           Wrong == {k \in 0..n : ~ \E f \in [0..k -> A] : Is(k, f)}
<1>1. Wrong \in SUBSET (0..n)
  OBVIOUS
<1>2. 0 \notin Wrong
  <2> DEFINE f == [i \in 0..0 |-> base]
  <2>1. f \in [0..0 -> A] /\ Is(0, f)
    OBVIOUS
  <2>2. QED
    BY <2>1
<1>3. ASSUME NEW k \in 1..n, k - 1 \notin Wrong PROVE k \notin Wrong
  <2>1. k - 1 \in 0..n
    OBVIOUS
  <2>2. PICK f \in [0..k - 1 -> A] : Is(k - 1, f)
    BY <1>3, <2>1
  <2> DEFINE h == [i \in 0..k |-> IF i = k THEN step[<<k, f[k - 1]>>] ELSE f[i]]
  <2>3. step[<<k, f[k - 1]>>] \in A
    OBVIOUS
  <2>4. h \in [0..k -> A]
    BY <2>3
  <2>5. h[0] = base
    BY <2>2
  <2>6. ASSUME NEW i \in 1..k PROVE h[i] = step[<<i, h[i - 1]>>]
    <3>1. CASE i = k
      <4>1. k - 1 \in 0..k /\ k - 1 # k /\ k \in 0..k
        OBVIOUS
      <4>2. h[k - 1] = f[k - 1] /\ h[k] = step[<<k, f[k - 1]>>]
        BY <4>1
      <4>3. QED
        BY <3>1, <4>2
    <3>2. CASE i # k
      <4>1. i \in 1..k - 1 /\ i - 1 \in 0..k - 1 /\ h[i] = f[i] /\ h[i - 1] = f[i - 1]
        BY <3>2
      <4>2. QED
        BY <2>2, <4>1
    <3>3. QED
      BY <3>1, <3>2
  <2>7. Is(k, h)
    BY <2>5, <2>6
  <2>8. QED
    BY <2>4, <2>7
<1>4. n \notin Wrong
  <2>1. Wrong = {}
    <3> HIDE DEF Wrong
    <3>1. QED
      BY <1>1, <1>2, <1>3, NeverWrong
  <2>2. QED
    BY <2>1
<1>5. \E f \in [0..n -> A] : Is(n, f)
  BY <1>4
<1>6. QED
  BY <1>5 DEF IsRun

(* The greatest of a set of numbers that ends with k.                      *)
LEMMA MaxIs ==
    ASSUME NEW S \in SUBSET Nat, NEW k \in S, \A i \in S : i <= k
    PROVE  Max(S) = k
<1>1. \A x \in S : (\A y \in S : x >= y) => x = k
  OBVIOUS
<1>2. QED
  BY <1>1 DEF Max

(* A fold takes the last element of a set first, so it exists on all sets  *)
(* of positions.                                                           *)
LEMMA FoldExists ==
    ASSUME NEW n \in Nat, NEW A, NEW base \in A, NEW step \in [(1..n) \X A -> A]
    PROVE  \E it \in [SUBSET (1..n) -> A] : IsFold(it, n, base, step)
<1> DEFINE Is(it, S) == it[S] = IF S = {} THEN base
                   ELSE step[<<Max(S), it[S \ {Max(S)}]>>]
           Wrong == {k \in 0..n : ~ \E it \in [SUBSET (1..k) -> A] :
                   \A S \in SUBSET (1..k) : Is(it, S)}
<1>1. Wrong \in SUBSET (0..n)
  OBVIOUS
<1>2. 0 \notin Wrong
  <2> DEFINE it == [S \in SUBSET (1..0) |-> base]
  <2>1. SUBSET (1..0) = {{}}
    OBVIOUS
  <2>2. it \in [SUBSET (1..0) -> A]
    OBVIOUS
  <2>3. \A S \in SUBSET (1..0) : Is(it, S)
    BY <2>1
  <2>4. QED
    BY <2>2, <2>3
<1>3. ASSUME NEW k \in 1..n, k - 1 \notin Wrong PROVE k \notin Wrong
  <2>1. k - 1 \in 0..n
    OBVIOUS
  <2>2. PICK it \in [SUBSET (1..k - 1) -> A] : \A S \in SUBSET (1..k - 1) : Is(it, S)
    BY <1>3, <2>1
  <2> DEFINE h == [S \in SUBSET (1..k) |-> IF k \in S THEN step[<<k, it[S \ {k}]>>]
                     ELSE it[S]]
  <2>3. \A S \in SUBSET (1..k) : S \ {k} \in SUBSET (1..k - 1)
    OBVIOUS
  <2>4. \A S \in SUBSET (1..k) : k \notin S => S \in SUBSET (1..k - 1)
    BY <2>3
  <2>5. h \in [SUBSET (1..k) -> A]
    <3>1. \A S \in SUBSET (1..k) : it[S \ {k}] \in A
      BY <2>3
    <3>2. \A S \in SUBSET (1..k) : step[<<k, it[S \ {k}]>>] \in A
      BY <3>1
    <3>3. \A S \in SUBSET (1..k) : k \notin S => it[S] \in A
      BY <2>4
    <3>4. QED
      BY <3>2, <3>3
  <2>6. \A S \in SUBSET (1..k - 1) : S \in SUBSET (1..k) /\ k \notin S /\ h[S] = it[S]
    OBVIOUS
  <2>7. ASSUME NEW S \in SUBSET (1..k) PROVE Is(h, S)
    <3>1. CASE k \in S
      <4>1. Max(S) = k
        <5>1. S \in SUBSET Nat /\ \A i \in S : i <= k
          OBVIOUS
        <5>2. QED
          BY <3>1, <5>1, MaxIs
      <4>2. S \ {k} \in SUBSET (1..k - 1)
        BY <2>3
      <4>3. h[S] = step[<<k, h[S \ {k}]>>]
        BY <2>6, <3>1, <4>2
      <4>4. QED
        BY <3>1, <4>1, <4>3
    <3>2. CASE k \notin S /\ S # {}
      <4>1. S \in SUBSET (1..k - 1) /\ h[S] = it[S]
        BY <2>4, <2>6, <3>2
      <4>2. S \ {Max(S)} \in SUBSET (1..k - 1)
        BY <4>1
      <4>3. h[S \ {Max(S)}] = it[S \ {Max(S)}]
        BY <2>6, <4>2
      <4>4. Is(it, S)
        BY <2>2, <4>1
      <4>5. QED
        BY <3>2, <4>1, <4>3, <4>4
    <3>3. CASE S = {}
      <4>1. S \in SUBSET (1..k - 1) /\ h[S] = it[S]
        BY <2>6, <3>3
      <4>2. QED
        BY <2>2, <3>3, <4>1
    <3>4. QED
      BY <3>1, <3>2, <3>3
  <2>8. QED
    BY <2>5, <2>7
<1>4. n \notin Wrong
  <2>1. Wrong = {}
    <3> HIDE DEF Wrong
    <3>1. QED
      BY <1>1, <1>2, <1>3, NeverWrong
  <2>2. QED
    BY <2>1
<1>5. \E it \in [SUBSET (1..n) -> A] : \A S \in SUBSET (1..n) : Is(it, S)
  <2>1. n \in 0..n
    OBVIOUS
  <2> HIDE DEF Is
  <2>2. QED
    BY <1>4, <2>1
<1>6. QED
  BY <1>5 DEF IsFold

(* Its values on the first positions are a run.                            *)
LEMMA FoldIsRun ==
    ASSUME NEW n \in Nat, NEW it, NEW i \in 1..n
    PROVE  /\ 1..i \in SUBSET (1..n) /\ 1..i # {} /\ Max(1..i) = i
           /\ (1..i) \ {i} = 1..i - 1
<1>1. 1..i \in SUBSET Nat /\ i \in 1..i /\ \A j \in 1..i : j <= i
  OBVIOUS
<1>2. Max(1..i) = i
  BY <1>1, MaxIs
<1>3. QED
  BY <1>2

-----------------------------------------------------------------------------
(* Sequences made of sequences.                                            *)

(* FlattenSeq goes through its sequences one by one.                       *)
Flattens(f, ss) ==
    /\ f[1] = ss[1] /\ f[Len(ss)] = FlattenSeq(ss)
    /\ \A i \in 2..Len(ss) : f[i] = f[i - 1] \o ss[i]

(* The run behind FlattenSeq.                                              *)
LEMMA FlattenRun ==
    ASSUME NEW S, NEW ss \in Seq(Seq(S)), ss # <<>>
    PROVE  /\ Len(ss) \in Nat \ {0}
           /\ \E f \in [1..Len(ss) -> Seq(S)] : Flattens(f, ss)
<1> DEFINE n == Len(ss)
           Body(f) == [i \in 1..n |-> IF i = 1 THEN ss[i] ELSE f[i - 1] \o ss[i]]
           step == [p \in (1..n) \X Seq(S) |-> IF p[1] = 1 THEN ss[1]
                   ELSE p[2] \o ss[p[1]]]
<1>1. n \in Nat \ {0} /\ \A i \in 1..n : ss[i] \in Seq(S)
  <2>1. n \in Nat \ {0}
    BY EmptySeq
  <2>2. \A i \in 1..n : ss[i] \in Seq(S)
    BY ElementOfSeq
  <2>3. QED
    BY <2>1, <2>2
<1> HIDE DEF n
<1>2. \E f : f = Body(f)
  <2>1. step \in [(1..n) \X Seq(S) -> Seq(S)]
    <3>1. ASSUME NEW i \in 1..n, NEW s \in Seq(S) PROVE s \o ss[i] \in Seq(S)
                     /\ ss[1] \in Seq(S)
      <4>1. ss[i] \in Seq(S) /\ ss[1] \in Seq(S)
        BY <1>1
      <4>2. QED
        BY <4>1, ConcatProperties
    <3>2. QED
      BY <3>1
  <2>2. <<>> \in Seq(S)
    BY EmptySeq
  <2>3. PICK h \in [0..n -> Seq(S)] : h[0] = <<>>
            /\ \A i \in 1..n : h[i] = step[<<i, h[i - 1]>>]
    <3> HIDE DEF step
    <3>1. \E h \in [0..n -> Seq(S)] : IsRun(h, n, <<>>, step)
      BY <1>1, <2>1, <2>2, RunExists
    <3>2. QED
      BY <3>1 DEF IsRun
  <2> DEFINE f == [i \in 1..n |-> h[i]]
  <2>4. ASSUME NEW i \in 1..n PROVE f[i] = IF i = 1 THEN ss[i] ELSE f[i - 1] \o ss[i]
    <3>1. i - 1 \in 0..n /\ h[i - 1] \in Seq(S)
      BY <1>1
    <3>2. f[i] = IF i = 1 THEN ss[1] ELSE h[i - 1] \o ss[i]
      BY <2>3, <3>1
    <3>3. i # 1 => i - 1 \in 1..n /\ f[i - 1] = h[i - 1]
      BY <1>1
    <3>4. QED
      BY <3>2, <3>3
  <2>5. f = Body(f)
    BY <2>4
  <2>6. QED
    BY <2>5
<1> DEFINE f == CHOOSE f : f = Body(f)
<1>3. f = Body(f)
  BY <1>2
<1>4. FlattenSeq(ss) = f[n]
  BY <1>1 DEF FlattenSeq, n
<1> HIDE DEF f
<1>5. /\ f[1] = ss[1] /\ \A i \in 2..n : f[i] = f[i - 1] \o ss[i]
      /\ f = [i \in 1..n |-> f[i]]
  <2>1. f = [i \in 1..n |-> IF i = 1 THEN ss[i] ELSE f[i - 1] \o ss[i]]
    BY <1>3
  <2>2. f = [i \in 1..n |-> f[i]]
    BY <2>1
  <2>3. \A i \in 1..n : f[i] = IF i = 1 THEN ss[i] ELSE f[i - 1] \o ss[i]
    BY <2>1
  <2>4. 1 \in 1..n /\ \A i \in 2..n : i \in 1..n /\ i # 1
    BY <1>1
  <2>5. QED
    BY <2>2, <2>3, <2>4
<1>6. \A i \in 1..n : f[i] \in Seq(S)
  <2> DEFINE Wrong == {i \in 0..n : i # 0 /\ f[i] \notin Seq(S)}
  <2>1. Wrong \in SUBSET (0..n) /\ 0 \notin Wrong
    OBVIOUS
  <2>2. ASSUME NEW i \in 1..n, i - 1 \notin Wrong PROVE i \notin Wrong
    <3>1. CASE i = 1
      BY <1>1, <1>5, <3>1
    <3>2. CASE i # 1
      <4>1. i \in 2..n /\ i - 1 \in 0..n /\ i - 1 # 0
        BY <1>1, <3>2
      <4>2. f[i - 1] \in Seq(S) /\ ss[i] \in Seq(S)
        BY <1>1, <2>2, <4>1
      <4>3. f[i - 1] \o ss[i] \in Seq(S)
        BY <4>2, ConcatProperties
      <4>4. QED
        BY <1>5, <4>1, <4>3
    <3>3. QED
      BY <3>1, <3>2
  <2>3. Wrong = {}
    <3> HIDE DEF Wrong
    <3>1. QED
      BY <1>1, <2>1, <2>2, NeverWrong
  <2>4. QED
    BY <2>3
<1>7. f \in [1..n -> Seq(S)]
  BY <1>5, <1>6
<1>8. QED
  BY <1>1, <1>4, <1>5, <1>7 DEF n, Flattens

(* Nothing is made of no sequences.                                        *)
LEMMA FlattenNone == FlattenSeq(<<>>) = <<>>
BY DEF FlattenSeq

(* FlattenSeq makes a sequence of the elements.                            *)
LEMMA FlattenType ==
    ASSUME NEW S, NEW ss \in Seq(Seq(S)) PROVE FlattenSeq(ss) \in Seq(S)
<1>1. CASE ss = <<>>
  BY <1>1, FlattenNone, EmptySeq
<1>2. CASE ss # <<>>
  <2>1. PICK f \in [1..Len(ss) -> Seq(S)] : f[Len(ss)] = FlattenSeq(ss)
    BY <1>2, FlattenRun DEF Flattens
  <2>2. Len(ss) \in 1..Len(ss)
    BY <1>2, FlattenRun
  <2>3. QED
    BY <2>1, <2>2
<1>3. QED
  BY <1>1, <1>2

(* One more sequence comes at the end.                                     *)
LEMMA FlattenAppend ==
    ASSUME NEW S, NEW ss \in Seq(Seq(S)), NEW s \in Seq(S)
    PROVE  FlattenSeq(Append(ss, s)) = FlattenSeq(ss) \o s
<1> DEFINE n == Len(ss)
           tt == Append(ss, s)
<1>1. n \in Nat /\ tt \in Seq(Seq(S)) /\ tt # <<>> /\ Len(tt) = n + 1
      /\ (\A i \in 1..n : tt[i] = ss[i]) /\ tt[n + 1] = s
  BY LenProperties, AppendProperties
<1> HIDE DEF tt
<1>2. PICK g \in [1..n + 1 -> Seq(S)] :
          /\ g[1] = tt[1] /\ g[n + 1] = FlattenSeq(tt)
          /\ \A i \in 2..n + 1 : g[i] = g[i - 1] \o tt[i]
  <2>1. \E g \in [1..Len(tt) -> Seq(S)] : Flattens(g, tt)
    BY <1>1, FlattenRun
  <2>2. QED
    BY <1>1, <2>1 DEF Flattens
<1>3. CASE ss = <<>>
  <2>1. n = 0 /\ FlattenSeq(ss) = <<>>
    BY <1>3, FlattenNone, EmptySeq
  <2>2. FlattenSeq(tt) = s
    BY <1>1, <1>2, <2>1
  <2>3. <<>> \o s = s
    BY ConcatEmptySeq
  <2>4. QED
    BY <2>1, <2>2, <2>3 DEF tt
<1>4. CASE ss # <<>>
  <2>1. PICK f \in [1..n -> Seq(S)] :
            /\ f[1] = ss[1] /\ f[n] = FlattenSeq(ss)
            /\ \A i \in 2..n : f[i] = f[i - 1] \o ss[i]
    BY <1>4, FlattenRun DEF Flattens
  <2>2. n >= 1
    BY <1>4, FlattenRun
  <2> DEFINE Wrong == {i \in 0..n : i # 0 /\ f[i] # g[i]}
  <2>3. Wrong \in SUBSET (0..n) /\ 0 \notin Wrong
    OBVIOUS
  <2>4. ASSUME NEW i \in 1..n, i - 1 \notin Wrong PROVE i \notin Wrong
    <3>1. CASE i = 1
      BY <1>1, <1>2, <2>1, <3>1
    <3>2. CASE i # 1
      <4>1. i \in 2..n /\ i \in 2..n + 1 /\ i - 1 \in 0..n /\ i - 1 # 0
        BY <1>1, <3>2
      <4>2. f[i - 1] = g[i - 1] /\ tt[i] = ss[i]
        BY <1>1, <2>4, <4>1
      <4>3. QED
        BY <1>2, <2>1, <4>1, <4>2
    <3>3. QED
      BY <3>1, <3>2
  <2>5. Wrong = {}
    <3> HIDE DEF Wrong
    <3>1. QED
      BY <1>1, <2>3, <2>4, NeverWrong
  <2>6. f[n] = g[n]
    <3>1. n \in 0..n /\ n # 0
      BY <1>1, <2>2
    <3>2. QED
      BY <2>5, <3>1
  <2>7. g[n + 1] = g[n] \o s
    <3>1. n + 1 \in 2..n + 1 /\ (n + 1) - 1 = n
      BY <1>1, <2>2
    <3>2. QED
      BY <1>1, <1>2, <3>1
  <2>8. QED
    BY <1>2, <2>1, <2>6, <2>7 DEF tt
<1>5. QED
  BY <1>3, <1>4

(* Induction over sequences, on the set of those where something holds.    *)
LEMMA UptoLast ==
    ASSUME NEW B, NEW s \in Seq(B), NEW k \in 1..Len(s)
    PROVE  /\ SubSeq(s, 1, k - 1) \in Seq(B) /\ s[k] \in B
           /\ SubSeq(s, 1, k) = Append(SubSeq(s, 1, k - 1), s[k])
<1>1. Len(s) \in Nat /\ \A i \in 1..Len(s) : s[i] \in B
  BY LenProperties, ElementOfSeq
<1>2. SubSeq(s, 1, k - 1) \in Seq(B) /\ s[k] \in B
  <2>1. \A i \in 1..k - 1 : s[i] \in B
    BY <1>1
  <2>2. 1 \in Int /\ k - 1 \in Int
    OBVIOUS
  <2>3. QED
    BY <1>1, <2>1, <2>2, SubSeqProperties
<1>3. SubSeq(s, 1, k) = SubSeq(s, 1, k - 1) \o <<s[k]>>
  <2>1. 1 \in 1..Len(s) /\ k \in 1..Len(s)
    BY <1>1
  <2>2. QED
    BY <2>1, SubSeqRecursiveSecond
<1>4. QED
  BY <1>2, <1>3, AppendIsConcat

(* What is true of the empty sequence and stays true is always true.       *)
LEMMA SeqInduction ==
    ASSUME NEW B, NEW Good \in SUBSET Seq(B), <<>> \in Good,
           \A s \in Good, x \in B : Append(s, x) \in Good
    PROVE  \A s \in Seq(B) : s \in Good
<1> SUFFICES ASSUME NEW s \in Seq(B) PROVE s \in Good
  OBVIOUS
<1> DEFINE n == Len(s)
           Wrong == {k \in 0..n : SubSeq(s, 1, k) \notin Good}
<1>1. n \in Nat /\ SubSeq(s, 1, 0) = <<>> /\ SubSeq(s, 1, n) = s
  BY LenProperties, SubSeqEmpty, SubSeqFull
<1>2. Wrong \in SUBSET (0..n) /\ 0 \notin Wrong
  BY <1>1
<1>3. ASSUME NEW k \in 1..n, k - 1 \notin Wrong PROVE k \notin Wrong
  <2>1. k - 1 \in 0..n
    BY <1>1
  <2>2. SubSeq(s, 1, k - 1) \in Good
    BY <1>3, <2>1
  <2>3. s[k] \in B /\ SubSeq(s, 1, k) = Append(SubSeq(s, 1, k - 1), s[k])
    BY UptoLast
  <2>4. SubSeq(s, 1, k) \in Good
    BY <2>2, <2>3
  <2>5. QED
    BY <2>4
<1>4. Wrong = {}
  <2> HIDE DEF Wrong, n
  <2>1. QED
    BY <1>1, <1>2, <1>3, NeverWrong
<1>5. n \in 0..n
  BY <1>1
<1>6. QED
  BY <1>1, <1>4, <1>5

-----------------------------------------------------------------------------
(* What a function makes of the elements of a sequence, one after another: *)
(* the form of every translation here.                                     *)
Makers(B, C) == [B -> Seq(C)]
Spread(s, f) == FlattenSeq([i \in DOMAIN s |-> f[s[i]]])

(* The sequences that are put together.                                    *)
LEMMA SpreadParts ==
    ASSUME NEW B, NEW C, NEW f \in Makers(B, C), NEW s \in Seq(B)
    PROVE  [i \in DOMAIN s |-> f[s[i]]] \in Seq(Seq(C))
<1> USE DEF Makers
<1>1. Len(s) \in Nat /\ DOMAIN s = 1..Len(s) /\ \A i \in 1..Len(s) : s[i] \in B
  BY LenProperties, ElementOfSeq
<1>2. \A i \in 1..Len(s) : f[s[i]] \in Seq(C)
  BY <1>1
<1>3. QED
  BY <1>1, <1>2

(* They make a sequence.                                                   *)
LEMMA SpreadType ==
    ASSUME NEW B, NEW C, NEW f \in Makers(B, C), NEW s \in Seq(B)
    PROVE  Spread(s, f) \in Seq(C)
<1> DEFINE ss == [i \in DOMAIN s |-> f[s[i]]]
<1>1. ss \in Seq(Seq(C))
  BY SpreadParts
<1>2. FlattenSeq(ss) \in Seq(C)
  <2> HIDE DEF ss
  <2>1. QED
    BY <1>1, FlattenType
<1>3. QED
  BY <1>2 DEF Spread

(* Nothing is made of nothing,                                             *)
LEMMA SpreadNone == ASSUME NEW f PROVE Spread(<<>>, f) = <<>>
<1>1. [i \in DOMAIN <<>> |-> f[<<>>[i]]] = <<>>
  OBVIOUS
<1>2. QED
  BY <1>1, FlattenNone DEF Spread

(* of one more what the others made and what it makes,                     *)
LEMMA SpreadAppend ==
    ASSUME NEW B, NEW C, NEW f \in Makers(B, C), NEW s \in Seq(B), NEW x \in B
    PROVE  Spread(Append(s, x), f) = Spread(s, f) \o f[x]
<1> USE DEF Makers
<1> DEFINE n == Len(s)
           t == Append(s, x)
           ss == [i \in DOMAIN s |-> f[s[i]]]
           tt == [i \in DOMAIN t |-> f[t[i]]]
<1>1. n \in Nat /\ DOMAIN s = 1..n /\ t \in Seq(B) /\ Len(t) = n + 1
          /\ DOMAIN t = 1..n + 1
      /\ (\A i \in 1..n : t[i] = s[i]) /\ t[n + 1] = x
  BY LenProperties, AppendProperties
<1>2. ss \in Seq(Seq(C)) /\ tt \in Seq(Seq(C)) /\ f[x] \in Seq(C)
  BY <1>1, SpreadParts
<1>3. tt = Append(ss, f[x])
  <2>1. Len(ss) = n /\ Len(tt) = n + 1 /\ Append(ss, f[x]) \in Seq(Seq(C))
    BY <1>1, <1>2, AppendProperties
  <2>2. Len(Append(ss, f[x])) = n + 1
    BY <1>2, <2>1, AppendProperties
  <2>3. ASSUME NEW i \in 1..n + 1 PROVE tt[i] = Append(ss, f[x])[i]
    <3>1. CASE i = n + 1
      <4>1. tt[i] = f[x]
        BY <1>1, <3>1
      <4>2. Append(ss, f[x])[n + 1] = f[x]
        BY <1>2, <2>1, AppendProperties
      <4>3. QED
        BY <3>1, <4>1, <4>2
    <3>2. CASE i # n + 1
      <4>1. i \in 1..n /\ tt[i] = f[s[i]] /\ ss[i] = f[s[i]]
        BY <1>1, <3>2
      <4>2. Append(ss, f[x])[i] = ss[i]
        BY <1>2, <2>1, <4>1, AppendProperties
      <4>3. QED
        BY <4>1, <4>2
    <3>3. QED
      BY <3>1, <3>2
  <2> HIDE DEF ss, tt
  <2>4. QED
    BY <1>2, <2>1, <2>2, <2>3, SeqEqual
<1> HIDE DEF n
<1>4. FlattenSeq(Append(ss, f[x])) = FlattenSeq(ss) \o f[x]
  <2> HIDE DEF ss
  <2>1. QED
    BY <1>2, FlattenAppend
<1>5. Spread(s, f) = FlattenSeq(ss) /\ Spread(t, f) = FlattenSeq(tt)
  BY DEF Spread
<1> HIDE DEF ss, tt
<1>6. QED
  BY <1>3, <1>4, <1>5

(* of one what it makes,                                                   *)
LEMMA SpreadOne ==
    ASSUME NEW B, NEW C, NEW f \in Makers(B, C), NEW x \in B
    PROVE  Spread(<<x>>, f) = f[x]
<1> USE DEF Makers
<1>1. <<>> \in Seq(B) /\ Append(<<>>, x) = <<x>> /\ f[x] \in Seq(C)
  BY EmptySeq
<1>2. Spread(<<x>>, f) = Spread(<<>>, f) \o f[x]
  BY <1>1, SpreadAppend
<1>3. QED
  BY <1>1, <1>2, SpreadNone, ConcatEmptySeq

(* (An element at the end stays at the end.)                               *)
LEMMA AppendInto ==
    ASSUME NEW B, NEW s \in Seq(B), NEW t \in Seq(B), NEW x \in B
    PROVE  s \o Append(t, x) = Append(s \o t, x)
<1>1. <<x>> \in Seq(B) /\ Append(t, x) = t \o <<x>> /\ s \o t \in Seq(B)
  BY AppendIsConcat, ConcatProperties
<1>2. Append(s \o t, x) = (s \o t) \o <<x>>
  BY <1>1, AppendIsConcat
<1>3. QED
  BY <1>1, <1>2, ConcatAssociative

(* of two sequences what the two make.                                     *)
LEMMA SpreadConcat ==
    ASSUME NEW B, NEW C, NEW f \in Makers(B, C), NEW s \in Seq(B), NEW t \in Seq(B)
    PROVE  Spread(s \o t, f) = Spread(s, f) \o Spread(t, f)
<1> USE DEF Makers
<1> DEFINE Good == {u \in Seq(B) : Spread(s \o u, f) = Spread(s, f) \o Spread(u, f)}
<1>1. Good \in SUBSET Seq(B)
  OBVIOUS
<1>2. <<>> \in Good
  <2>1. <<>> \in Seq(B) /\ s \o <<>> = s /\ Spread(s, f) \in Seq(C)
    BY EmptySeq, ConcatEmptySeq, SpreadType
  <2>2. Spread(s, f) \o <<>> = Spread(s, f)
    BY <2>1, ConcatEmptySeq
  <2>3. QED
    BY <2>1, <2>2, SpreadNone
<1>3. ASSUME NEW u \in Good, NEW x \in B PROVE Append(u, x) \in Good
  <2>1. u \in Seq(B) /\ Append(u, x) \in Seq(B) /\ s \o u \in Seq(B) /\ f[x] \in Seq(C)
    BY AppendProperties, ConcatProperties
  <2>2. Spread(s, f) \in Seq(C) /\ Spread(u, f) \in Seq(C)
    BY <2>1, SpreadType
  <2>3. s \o Append(u, x) = Append(s \o u, x)
    BY <2>1, AppendInto
  <2>4. Spread(Append(s \o u, x), f) = Spread(s \o u, f) \o f[x]
    BY <2>1, SpreadAppend
  <2>5. Spread(Append(u, x), f) = Spread(u, f) \o f[x]
    BY <2>1, SpreadAppend
  <2>6. (Spread(s, f) \o Spread(u, f)) \o f[x] = Spread(s, f) \o (Spread(u, f) \o f[x])
    BY <2>1, <2>2, ConcatAssociative
  <2>7. Spread(s \o u, f) = Spread(s, f) \o Spread(u, f)
    OBVIOUS
  <2>8. QED
    BY <2>1, <2>3, <2>4, <2>5, <2>6, <2>7
<1> HIDE DEF Good
<1>4. t \in Good
  BY <1>1, <1>2, <1>3, SeqInduction
<1>5. QED
  BY <1>4 DEF Good

(* Where the elements come from, and where they go.                        *)
LEMMA SpreadFrom ==
    ASSUME NEW B, NEW C, NEW f \in Makers(B, C), NEW s \in Seq(B)
    PROVE  \A i \in DOMAIN Spread(s, f) :
              \E j \in DOMAIN s : \E k \in DOMAIN f[s[j]] : Spread(s, f)[i] = f[s[j]][k]
<1> USE DEF Makers
<1> DEFINE From(u, y) == \E j \in DOMAIN u : \E k \in DOMAIN f[u[j]] : y = f[u[j]][k]
           Good == {u \in Seq(B) : \A i \in DOMAIN Spread(u, f) :
                   From(u, Spread(u, f)[i])}
<1>1. Good \in SUBSET Seq(B)
  OBVIOUS
<1>2. <<>> \in Good
  BY EmptySeq, SpreadNone
<1>3. ASSUME NEW u \in Good, NEW x \in B PROVE Append(u, x) \in Good
  <2> DEFINE m == Len(Spread(u, f))
             l == Len(f[x])
             t == Append(u, x)
  <2>1. u \in Seq(B) /\ t \in Seq(B) /\ f[x] \in Seq(C) /\ Spread(u, f) \in Seq(C)
    BY AppendProperties, SpreadType
  <2>2. /\ m \in Nat /\ l \in Nat /\ DOMAIN Spread(u, f) = 1..m /\ DOMAIN f[x] = 1..l
        /\ Len(u) \in Nat /\ DOMAIN u = 1..Len(u)
    BY <2>1, LenProperties
  <2>3. /\ DOMAIN t = 1..Len(u) + 1 /\ (\A j \in DOMAIN u : j \in DOMAIN t /\ t[j] = u[j])
        /\ Len(u) + 1 \in DOMAIN t /\ t[Len(u) + 1] = x
    <3>1. Len(t) = Len(u) + 1 /\ (\A j \in 1..Len(u) : t[j] = u[j]) /\ t[Len(u) + 1] = x
      BY <2>1, AppendProperties
    <3>2. DOMAIN t = 1..Len(t)
      BY <2>1, LenProperties
    <3>3. QED
      BY <2>2, <3>1, <3>2
  <2>4. Spread(t, f) = Spread(u, f) \o f[x]
    <3> HIDE DEF Good, m, l
    <3>1. Spread(Append(u, x), f) = Spread(u, f) \o f[x]
      BY <2>1, SpreadAppend
    <3>2. QED
      BY <3>1
  <2>5. DOMAIN Spread(t, f) = 1..m + l /\ \A i \in 1..m + l :
            Spread(t, f)[i] = IF i <= m THEN Spread(u, f)[i] ELSE f[x][i - m]
    <3>1. Spread(t, f) \in Seq(C) /\ Len(Spread(t, f)) = m + l
      BY <2>1, <2>4, ConcatProperties
    <3>2. DOMAIN Spread(t, f) = 1..m + l
      BY <3>1, LenProperties
    <3>3. QED
      BY <2>1, <2>4, <3>2, ConcatProperties
  <2>6. \A i \in DOMAIN Spread(u, f) : From(u, Spread(u, f)[i])
    OBVIOUS
  <2> HIDE DEF m, l, t, Good
  <2>7. ASSUME NEW i \in 1..m + l PROVE From(t, Spread(t, f)[i])
    <3>1. CASE i <= m
      <4>1. i \in DOMAIN Spread(u, f) /\ Spread(t, f)[i] = Spread(u, f)[i]
        BY <2>2, <2>5, <3>1
      <4>2. PICK j \in DOMAIN u : \E k \in DOMAIN f[u[j]] : Spread(u, f)[i] = f[u[j]][k]
        BY <2>6, <4>1
      <4>3. j \in DOMAIN t /\ t[j] = u[j]
        BY <2>3
      <4>4. QED
        BY <4>1, <4>2, <4>3
    <3>2. CASE ~(i <= m)
      <4>1. i - m \in DOMAIN f[x] /\ Spread(t, f)[i] = f[x][i - m]
        BY <2>2, <2>5, <3>2
      <4>2. QED
        BY <2>3, <4>1
    <3>3. QED
      BY <3>1, <3>2
  <2>8. QED
    BY <2>1, <2>5, <2>7 DEF Good, t
<1> HIDE DEF Good
<1>4. s \in Good
  BY <1>1, <1>2, <1>3, SeqInduction
<1>5. QED
  BY <1>4 DEF Good

(* All that an element makes is there.                                     *)
LEMMA SpreadTo ==
    ASSUME NEW B, NEW C, NEW f \in Makers(B, C), NEW s \in Seq(B),
           NEW j \in DOMAIN s, NEW k \in DOMAIN f[s[j]]
    PROVE  \E i \in DOMAIN Spread(s, f) : Spread(s, f)[i] = f[s[j]][k]
<1> USE DEF Makers
<1> DEFINE At(u, y) == \E i \in DOMAIN Spread(u, f) : Spread(u, f)[i] = y
           Good == {u \in Seq(B) : \A h \in DOMAIN u : \A l \in DOMAIN f[u[h]] :
                   At(u, f[u[h]][l])}
<1>1. Good \in SUBSET Seq(B)
  OBVIOUS
<1>2. <<>> \in Good
  BY EmptySeq
<1>3. ASSUME NEW u \in Good, NEW x \in B PROVE Append(u, x) \in Good
  <2> DEFINE m == Len(Spread(u, f))
             l == Len(f[x])
             t == Append(u, x)
  <2>1. u \in Seq(B) /\ t \in Seq(B) /\ f[x] \in Seq(C) /\ Spread(u, f) \in Seq(C)
    BY AppendProperties, SpreadType
  <2>2. /\ m \in Nat /\ l \in Nat /\ DOMAIN Spread(u, f) = 1..m /\ DOMAIN f[x] = 1..l
        /\ Len(u) \in Nat /\ DOMAIN u = 1..Len(u)
    BY <2>1, LenProperties
  <2>3. DOMAIN t = 1..Len(u) + 1 /\ (\A h \in 1..Len(u) : t[h] = u[h])
            /\ t[Len(u) + 1] = x
    <3>1. Len(t) = Len(u) + 1 /\ (\A h \in 1..Len(u) : t[h] = u[h]) /\ t[Len(u) + 1] = x
      BY <2>1, AppendProperties
    <3>2. DOMAIN t = 1..Len(t)
      BY <2>1, LenProperties
    <3>3. QED
      BY <3>1, <3>2
  <2>4. Spread(t, f) = Spread(u, f) \o f[x]
    <3> HIDE DEF Good, m, l
    <3>1. Spread(Append(u, x), f) = Spread(u, f) \o f[x]
      BY <2>1, SpreadAppend
    <3>2. QED
      BY <3>1
  <2>5. DOMAIN Spread(t, f) = 1..m + l /\ \A i \in 1..m + l :
            Spread(t, f)[i] = IF i <= m THEN Spread(u, f)[i] ELSE f[x][i - m]
    <3>1. Spread(t, f) \in Seq(C) /\ Len(Spread(t, f)) = m + l
      BY <2>1, <2>4, ConcatProperties
    <3>2. DOMAIN Spread(t, f) = 1..m + l
      BY <3>1, LenProperties
    <3>3. QED
      BY <2>1, <2>4, <3>2, ConcatProperties
  <2>6. \A h \in DOMAIN u : \A n \in DOMAIN f[u[h]] : At(u, f[u[h]][n])
    OBVIOUS
  <2> HIDE DEF m, l, t, Good
  <2>7. ASSUME NEW h \in DOMAIN t, NEW n \in DOMAIN f[t[h]] PROVE At(t, f[t[h]][n])
    <3>1. CASE h <= Len(u)
      <4>1. h \in DOMAIN u /\ t[h] = u[h]
        BY <2>2, <2>3, <3>1
      <4>2. PICK i \in DOMAIN Spread(u, f) : Spread(u, f)[i] = f[u[h]][n]
        BY <2>6, <4>1
      <4>3. i \in 1..m + l /\ Spread(t, f)[i] = Spread(u, f)[i]
        BY <2>2, <2>5
      <4>4. QED
        BY <2>5, <4>1, <4>2, <4>3
    <3>2. CASE ~(h <= Len(u))
      <4>1. t[h] = x
        BY <2>2, <2>3, <3>2
      <4>2. n + m \in 1..m + l /\ ~(n + m <= m) /\ (n + m) - m = n
        BY <2>2, <4>1
      <4>3. Spread(t, f)[n + m] = f[x][n]
        BY <2>5, <4>2
      <4>4. QED
        BY <2>5, <4>1, <4>2, <4>3
    <3>3. QED
      BY <2>2, <2>3, <3>1, <3>2
  <2>8. QED
    BY <2>1, <2>7 DEF Good, t
<1> HIDE DEF Good
<1>4. s \in Good
  BY <1>1, <1>2, <1>3, SeqInduction
<1>5. QED
  BY <1>4 DEF Good

(* One translation after another.                                          *)
LEMMA SpreadTwice ==
    ASSUME NEW B, NEW C, NEW D, NEW f \in Makers(B, C), NEW g \in Makers(C, D),
           NEW h \in Makers(B, D), NEW s \in Seq(B),
           \A j \in DOMAIN s : h[s[j]] = Spread(f[s[j]], g)
    PROVE  Spread(Spread(s, f), g) = Spread(s, h)
<1> USE DEF Makers
<1> DEFINE Twice(u) == (\A j \in DOMAIN u : h[u[j]] = Spread(f[u[j]], g)) =>
                          Spread(Spread(u, f), g) = Spread(u, h)
           Good == {u \in Seq(B) : Twice(u)}
<1>1. Good \in SUBSET Seq(B)
  OBVIOUS
<1>2. <<>> \in Good
  BY EmptySeq, SpreadNone
<1>3. ASSUME NEW u \in Good, NEW x \in B PROVE Append(u, x) \in Good
  <2>1. /\ u \in Seq(B) /\ Append(u, x) \in Seq(B) /\ f[x] \in Seq(C) /\ h[x] \in Seq(D)
        /\ Twice(u)
    BY AppendProperties
  <2>2. ASSUME \A j \in DOMAIN Append(u, x) :
                   h[Append(u, x)[j]] = Spread(f[Append(u, x)[j]], g)
        PROVE  Spread(Spread(Append(u, x), f), g) = Spread(Append(u, x), h)
    <3> HIDE DEF Twice, Good
    <3>1. /\ Len(u) \in Nat /\ DOMAIN u = 1..Len(u)
          /\ DOMAIN Append(u, x) = 1..Len(u) + 1 /\ Append(u, x)[Len(u) + 1] = x
          /\ \A j \in 1..Len(u) : Append(u, x)[j] = u[j]
      <4>1. Len(Append(u, x)) = Len(u) + 1
        BY <2>1, AppendProperties
      <4>2. DOMAIN Append(u, x) = 1..Len(Append(u, x)) /\ Len(u) \in Nat
                /\ DOMAIN u = 1..Len(u)
        BY <2>1, LenProperties
      <4>3. QED
        BY <2>1, <4>1, <4>2, AppendProperties
    <3>2. \A j \in DOMAIN u : h[u[j]] = Spread(f[u[j]], g)
      <4>1. \A j \in 1..Len(u) : j \in DOMAIN Append(u, x)
        BY <3>1
      <4>2. QED
        BY <2>2, <3>1, <4>1
    <3>3. h[x] = Spread(f[x], g)
      <4>1. Len(u) + 1 \in DOMAIN Append(u, x)
        BY <3>1
      <4>2. QED
        BY <2>2, <3>1, <4>1
    <3>4. Spread(Spread(u, f), g) = Spread(u, h)
      BY <2>1, <3>2 DEF Twice
    <3>5. Spread(u, f) \in Seq(C)
      BY <2>1, SpreadType
    <3>6. Spread(Append(u, x), f) = Spread(u, f) \o f[x]
      BY <2>1, SpreadAppend
    <3>7. Spread(Append(u, x), h) = Spread(u, h) \o h[x]
      BY <2>1, SpreadAppend
    <3>8. Spread(Spread(u, f) \o f[x], g) = Spread(Spread(u, f), g) \o Spread(f[x], g)
      <4>1. \A a \in Seq(C), b \in Seq(C) :
                Spread(a \o b, g) = Spread(a, g) \o Spread(b, g)
        BY SpreadConcat
      <4>2. QED
        BY <2>1, <3>5, <4>1
    <3>9. QED
      BY <3>3, <3>4, <3>6, <3>7, <3>8
  <2>3. QED
    BY <2>1, <2>2
<1> HIDE DEF Good
<1>4. s \in Good
  BY <1>1, <1>2, <1>3, SeqInduction
<1>5. QED
  BY <1>4 DEF Good

-----------------------------------------------------------------------------
(* What a map, a filter and the identity are.                              *)
LEMMA IsSequence ==
    ASSUME NEW S, NEW n \in Nat, NEW s, s = [i \in 1..n |-> s[i]], \A i \in 1..n :
               s[i] \in S
    PROVE  s \in Seq(S) /\ Len(s) = n /\ DOMAIN s = 1..n
OBVIOUS

(* Only the elements of the sequence matter.                               *)
LEMMA SpreadSame ==
    ASSUME NEW s, NEW f, NEW g, \A j \in DOMAIN s : f[s[j]] = g[s[j]]
    PROVE  Spread(s, f) = Spread(s, g)
<1>1. [i \in DOMAIN s |-> f[s[i]]] = [i \in DOMAIN s |-> g[s[i]]]
  OBVIOUS
<1>2. QED
  BY <1>1 DEF Spread

(* What makes itself of every element leaves a sequence alone.             *)
LEMMA SpreadUnit ==
    ASSUME NEW B, NEW f \in Makers(B, B), \A x \in B : f[x] = <<x>>, NEW s \in Seq(B)
    PROVE  Spread(s, f) = s
<1> USE DEF Makers
<1> DEFINE Good == {u \in Seq(B) : Spread(u, f) = u}
<1>1. Good \in SUBSET Seq(B)
  OBVIOUS
<1>2. <<>> \in Good
  BY EmptySeq, SpreadNone
<1>3. ASSUME NEW u \in Good, NEW x \in B PROVE Append(u, x) \in Good
  <2>1. u \in Seq(B) /\ Append(u, x) \in Seq(B) /\ Spread(u, f) = u
    BY AppendProperties
  <2>2. Spread(Append(u, x), f) = Spread(u, f) \o f[x]
    BY <2>1, SpreadAppend
  <2>3. Append(u, x) = u \o <<x>>
    BY <2>1, AppendIsConcat
  <2>4. QED
    BY <2>1, <2>2, <2>3
<1> HIDE DEF Good
<1>4. s \in Good
  BY <1>1, <1>2, <1>3, SeqInduction
<1>5. QED
  BY <1>4 DEF Good

Maps(f, s, r) == Len(r) = Len(s) /\ \A i \in 1..Len(s) : f[s[i]] = <<r[i]>>

(* What makes one element of each is a map.                                *)
LEMMA SpreadList ==
    ASSUME NEW B, NEW C, NEW f, NEW s \in Seq(B), NEW r \in Seq(C), Maps(f, s, r)
    PROVE  Spread(s, f) = r
<1> USE DEF Maps
<1> DEFINE unit == [x \in C |-> <<x>>]
<1>1. Len(s) \in Nat /\ DOMAIN s = 1..Len(s) /\ DOMAIN r = 1..Len(s)
          /\ \A i \in 1..Len(s) : r[i] \in C
  BY LenProperties, ElementOfSeq
<1>2. Spread(r, unit) = r
  <2>1. unit \in Makers(C, C) /\ \A x \in C : unit[x] = <<x>>
    BY DEF Makers
  <2> HIDE DEF unit
  <2>2. QED
    BY <2>1, SpreadUnit
<1>3. [i \in DOMAIN r |-> unit[r[i]]] = [i \in DOMAIN s |-> f[s[i]]]
  <2>1. ASSUME NEW i \in DOMAIN s PROVE unit[r[i]] = f[s[i]]
    BY <1>1
  <2> HIDE DEF unit
  <2>2. QED
    BY <1>1, <2>1
<1>4. Spread(r, unit) = Spread(s, f)
  <2> HIDE DEF unit
  <2>1. QED
    BY <1>3 DEF Spread
<1>5. QED
  BY <1>2, <1>4

(* What makes nothing of any element makes nothing.                        *)
LEMMA SpreadEmpty ==
    ASSUME NEW B, NEW C, NEW f \in Makers(B, C), NEW s \in Seq(B),
           \A j \in DOMAIN s : f[s[j]] = <<>>
    PROVE  Spread(s, f) = <<>>
<1> USE DEF Makers
<1>1. DOMAIN Spread(s, f) = {}
  <2>1. \A i \in DOMAIN Spread(s, f) : FALSE
    BY SpreadFrom
  <2>2. QED
    BY <2>1
<1>2. Spread(s, f) \in Seq(C)
  BY SpreadType
<1>3. Len(Spread(s, f)) = 0
  BY <1>1, <1>2, LenProperties
<1>4. QED
  BY <1>2, <1>3, EmptySeq

(* Sequences of sequences, one after another.                              *)
LEMMA FlattenConcat ==
    ASSUME NEW S, NEW ss \in Seq(Seq(S)), NEW tt \in Seq(Seq(S))
    PROVE  FlattenSeq(ss \o tt) = FlattenSeq(ss) \o FlattenSeq(tt)
<1> DEFINE same == [s \in Seq(S) |-> s]
<1>1. same \in Makers(Seq(S), S)
  BY DEF Makers
<1>2. ASSUME NEW uu \in Seq(Seq(S)) PROVE Spread(uu, same) = FlattenSeq(uu)
  <2>1. DOMAIN uu = 1..Len(uu) /\ \A i \in 1..Len(uu) : uu[i] \in Seq(S)
    BY LenProperties, ElementOfSeq
  <2>2. [i \in DOMAIN uu |-> same[uu[i]]] = uu
    BY <2>1
  <2>3. QED
    BY <2>2 DEF Spread
<1>3. ss \o tt \in Seq(Seq(S))
  BY ConcatProperties
<1>4. Spread(ss \o tt, same) = Spread(ss, same) \o Spread(tt, same)
  <2> HIDE DEF same
  <2>1. QED
    BY <1>1, SpreadConcat
<1>5. QED
  BY <1>2, <1>3, <1>4

-----------------------------------------------------------------------------
(* The data of the session; the strings of the model are named.            *)
Strings == STRING \cup
    {"", "text", "tool_use", "tool_result", "none", "user", "assistant", "tool", "system",
     "prompt", "reminder", "summary", "content_block_start", "content_block_delta",
     "message_start", "message_delta", "message_stop", "stop", "tool_calls", "end_turn"}
Words == Seq(Strings)
Blocks == [type : Strings, text : Words, id : Ids, name : Strings]
Frags == [index : Nat, id : Ids, name : Strings, args : Words]
Chunks == [reasoning : BOOLEAN, text : Words, calls : Seq(Frags), finish : Strings,
        usage : BOOLEAN]
StreamEvents == [event : Strings, index : Nat, block : Blocks]

(* The strings of the model are strings.                                   *)
LEMMA StringsAre ==
    /\ STRING \subseteq Strings /\ NoName \in Strings /\ NoRole \in Strings
    /\ {"", "text", "tool_use", "tool_result", "none", "user", "assistant", "tool",
           "system",
        "prompt", "reminder", "summary", "content_block_start", "content_block_delta",
        "message_start", "message_delta", "message_stop", "stop", "tool_calls",
            "end_turn"}
          \subseteq Strings
BY DEF Strings, NoName, NoRole

(* No id is an id, no words are words.                                     *)
LEMMA NoIdIsId == NoId \in Ids /\ <<>> \in Words
BY EmptySeq DEF Ids, NoId, Words

(* Sequences of one and of two elements.                                   *)
LEMMA OneOrTwo ==
    ASSUME NEW S
    PROVE  /\ (\A x \in S : <<x>> \in Seq(S)) /\ (\A y, w \in S : <<y, w>> \in Seq(S))
           /\ \A z : <<z>> # <<>> /\ Len(<<z>>) = 1 /\ <<z>>[1] = z
OBVIOUS

(* What the filters and readers of the model are as functions.             *)
OfType(type) == [b \in Blocks |-> IF b.type = type THEN <<b>> ELSE <<>>]
BlockText == [b \in Blocks |-> b.text]

(* The blocks of a type.                                                   *)
LEMMA OfTypeIs ==
    ASSUME NEW type, NEW s \in Seq(Blocks)
    PROVE  /\ OfType(type) \in Makers(Blocks, Blocks)
           /\ Of(type, s) = Spread(s, OfType(type)) /\ Of(type, s) \in Seq(Blocks)
<1>1. OfType(type) \in Makers(Blocks, Blocks)
  BY EmptySeq DEF OfType, Makers
<1>2. \A i \in DOMAIN s : s[i] \in Blocks
  BY LenProperties, ElementOfSeq
<1>3. [i \in DOMAIN s |-> IF s[i].type = type THEN <<s[i]>> ELSE <<>>]
         = [i \in DOMAIN s |-> OfType(type)[s[i]]]
  BY <1>2 DEF OfType
<1>4. Of(type, s) = Spread(s, OfType(type))
  BY <1>3 DEF Of, Filter, Spread
<1>5. QED
  BY <1>1, <1>4, SpreadType

(* The words of blocks.                                                    *)
LEMMA JoinedIs ==
    ASSUME NEW s \in Seq(Blocks)
    PROVE  /\ BlockText \in Makers(Blocks, Strings)
           /\ Joined(s) = Spread(s, BlockText) /\ Joined(s) \in Words
<1>1. BlockText \in Makers(Blocks, Strings)
  BY DEF BlockText, Blocks, Words, Makers
<1>2. \A i \in DOMAIN s : s[i] \in Blocks
  BY LenProperties, ElementOfSeq
<1>3. [i \in DOMAIN s |-> s[i].text] = [i \in DOMAIN s |-> BlockText[s[i]]]
  BY <1>2 DEF BlockText
<1>4. Joined(s) = Spread(s, BlockText)
  BY <1>3 DEF Joined, Spread
<1>5. QED
  BY <1>1, <1>4, SpreadType DEF Words

-----------------------------------------------------------------------------
(* What the agent reads: the events that count, as functions.              *)
TextOfEvent == [e \in StreamEvents |-> IF e.block.type = "text" THEN e.block.text
        ELSE <<>>]
BegunBy == [e \in StreamEvents |-> IF e.event = "content_block_start" THEN <<e>>
        ELSE <<>>]
BegunAt(n) == [e \in StreamEvents |->
                  IF e.event = "content_block_start" /\ e.index = n THEN <<e>> ELSE <<>>]
DeltaAt(n) == [e \in StreamEvents |->
                  IF e.event = "content_block_delta" /\ e.block.type = "tool_use"
                      /\ e.index = n
                  THEN e.block.text ELSE <<>>]

(* What the readers of the agent make of an event.                         *)
LEMMA EventFunctions ==
    /\ TextOfEvent \in Makers(StreamEvents, Strings)
           /\ BegunBy \in Makers(StreamEvents, StreamEvents)
    /\ \A n : /\ BegunAt(n) \in Makers(StreamEvents, StreamEvents)
              /\ DeltaAt(n) \in Makers(StreamEvents, Strings)
<1>1. \A e \in StreamEvents : e.block \in Blocks /\ e.block.text \in Seq(Strings)
  BY DEF StreamEvents, Blocks, Words
<1>2. <<>> \in Seq(Strings) /\ <<>> \in Seq(StreamEvents)
          /\ \A e \in StreamEvents : <<e>> \in Seq(StreamEvents)
  BY EmptySeq DEF Makers
<1>3. TextOfEvent \in Makers(StreamEvents, Strings)
  BY <1>1, <1>2 DEF TextOfEvent, Makers
<1>4. BegunBy \in Makers(StreamEvents, StreamEvents)
  BY <1>2 DEF BegunBy, Makers
<1>5. \A n : BegunAt(n) \in Makers(StreamEvents, StreamEvents)
  BY <1>2 DEF BegunAt, Makers
<1>6. \A n : DeltaAt(n) \in Makers(StreamEvents, Strings)
  BY <1>1, <1>2 DEF DeltaAt, Makers
<1>7. QED
  BY <1>3, <1>4, <1>5, <1>6

(* The text of an answer.                                                  *)
LEMMA SaidIs ==
    ASSUME NEW evs \in Seq(StreamEvents)
    PROVE  Said(evs) = Spread(evs, TextOfEvent)
<1> DEFINE keep == [e \in StreamEvents |-> IF e.block.type = "text" THEN <<e>> ELSE <<>>]
           text == [e \in StreamEvents |-> e.block.text]
           spoken == Filter(evs, LAMBDA e : e.block.type = "text")
<1>1. keep \in Makers(StreamEvents, StreamEvents)
  BY EmptySeq DEF Makers
<1>2. text \in Makers(StreamEvents, Strings)
  BY DEF StreamEvents, Blocks, Words, Makers
<1>3. \A i \in DOMAIN evs : evs[i] \in StreamEvents
  BY LenProperties, ElementOfSeq
<1>4. spoken = Spread(evs, keep)
  <2>1. [i \in DOMAIN evs |-> IF evs[i].block.type = "text" THEN <<evs[i]>> ELSE <<>>]
           = [i \in DOMAIN evs |-> keep[evs[i]]]
    BY <1>3
  <2>2. QED
    BY <2>1 DEF Filter, Spread
<1>5. Said(evs) = FlattenSeq([i \in DOMAIN spoken |-> spoken[i].block.text])
  BY DEF Said
<1>6. \A x \in StreamEvents : TextOfEvent[x] = Spread(keep[x], text)
  <2>1. ASSUME NEW x \in StreamEvents PROVE TextOfEvent[x] = Spread(keep[x], text)
    <3>1. CASE x.block.type = "text"
      <4>1. Spread(<<x>>, text) = text[x]
        <5> HIDE DEF text
        <5>1. QED
          BY <1>2, SpreadOne
      <4>2. QED
        BY <3>1, <4>1 DEF TextOfEvent
    <3>2. CASE x.block.type # "text"
      BY <3>2, SpreadNone DEF TextOfEvent
    <3>3. QED
      BY <3>1, <3>2
  <2>2. QED
    BY <2>1
<1> HIDE DEF keep, text, spoken
<1>7. spoken \in Seq(StreamEvents)
  BY <1>1, <1>4, SpreadType
<1>8. FlattenSeq([i \in DOMAIN spoken |-> spoken[i].block.text]) = Spread(spoken, text)
  <2>1. \A i \in DOMAIN spoken : spoken[i] \in StreamEvents
    BY <1>7, LenProperties, ElementOfSeq
  <2>2. [i \in DOMAIN spoken |-> spoken[i].block.text]
            = [i \in DOMAIN spoken |-> text[spoken[i]]]
    BY <2>1 DEF text
  <2>3. QED
    BY <2>2 DEF Spread
<1>9. Spread(Spread(evs, keep), text) = Spread(evs, TextOfEvent)
  BY <1>1, <1>2, <1>3, <1>6, EventFunctions, SpreadTwice
<1>10. QED
  BY <1>4, <1>5, <1>8, <1>9

(* The calls it begins.                                                    *)
LEMMA BegunIs ==
    ASSUME NEW evs \in Seq(StreamEvents)
    PROVE  Begun(evs) = Spread(evs, BegunBy) /\ Begun(evs) \in Seq(StreamEvents)
<1>1. \A i \in DOMAIN evs : evs[i] \in StreamEvents
  BY LenProperties, ElementOfSeq
<1>2. [i \in DOMAIN evs |-> IF evs[i].event = "content_block_start" THEN <<evs[i]>>
          ELSE <<>>]
           = [i \in DOMAIN evs |-> BegunBy[evs[i]]]
  BY <1>1 DEF BegunBy
<1>3. Begun(evs) = Spread(evs, BegunBy)
  BY <1>2 DEF Begun, Filter, Spread
<1>4. QED
  BY <1>3, EventFunctions, SpreadType

(* The first of the events that begin block n.                             *)
LEMMA BeginningIs ==
    ASSUME NEW evs \in Seq(StreamEvents), NEW n
    PROVE  /\ Beginning(evs, n) = Spread(evs, BegunAt(n))[1].block
           /\ (\E i \in DOMAIN Begun(evs) : Begun(evs)[i].index = n)
                  => Spread(evs, BegunAt(n)) # <<>>
<1> DEFINE keep == [e \in StreamEvents |-> IF e.index = n THEN <<e>> ELSE <<>>]
           begun == Begun(evs)
<1>1. keep \in Makers(StreamEvents, StreamEvents)
  BY EmptySeq DEF Makers
<1>2. begun \in Seq(StreamEvents) /\ begun = Spread(evs, BegunBy)
  BY BegunIs
<1>3. Filter(Begun(evs), LAMBDA e : e.index = n) = Spread(begun, keep)
  <2>1. \A i \in DOMAIN begun : begun[i] \in StreamEvents
    BY <1>2, LenProperties, ElementOfSeq
  <2>2. [i \in DOMAIN begun |-> IF begun[i].index = n THEN <<begun[i]>> ELSE <<>>]
           = [i \in DOMAIN begun |-> keep[begun[i]]]
    BY <2>1
  <2>3. QED
    BY <2>2 DEF Filter, Spread
<1>4. Beginning(evs, n) = Spread(begun, keep)[1].block
  BY <1>3 DEF Beginning
<1>5. \A x \in StreamEvents : BegunAt(n)[x] = Spread(BegunBy[x], keep)
  <2>1. ASSUME NEW x \in StreamEvents PROVE BegunAt(n)[x] = Spread(BegunBy[x], keep)
    <3>1. CASE x.event = "content_block_start"
      <4>1. Spread(<<x>>, keep) = keep[x]
        <5> HIDE DEF keep
        <5>1. QED
          BY <1>1, SpreadOne
      <4>2. QED
        BY <3>1, <4>1 DEF BegunAt, BegunBy
    <3>2. CASE x.event # "content_block_start"
      BY <3>2, SpreadNone DEF BegunAt, BegunBy
    <3>3. QED
      BY <3>1, <3>2
  <2>2. QED
    BY <2>1
<1>6. (\E i \in DOMAIN begun : begun[i].index = n) => Spread(begun, keep) # <<>>
  <2> SUFFICES ASSUME NEW i \in DOMAIN begun,
                          begun[i].index = n PROVE Spread(begun, keep) # <<>>
    OBVIOUS
  <2>1. keep[begun[i]] = <<begun[i]>> /\ 1 \in DOMAIN keep[begun[i]]
    BY <1>2, LenProperties, ElementOfSeq
  <2> HIDE DEF keep, begun
  <2>2. \E k \in DOMAIN Spread(begun, keep) : Spread(begun, keep)[k] = keep[begun[i]][1]
    BY <1>1, <1>2, <2>1, SpreadTo
  <2>3. QED
    BY <2>2, EmptySeq
<1> HIDE DEF keep, begun
<1>7. Spread(Spread(evs, BegunBy), keep) = Spread(evs, BegunAt(n))
  <2>1. \A i \in DOMAIN evs : evs[i] \in StreamEvents
    BY LenProperties, ElementOfSeq
  <2>2. QED
    BY <1>1, <1>5, <2>1, EventFunctions, SpreadTwice
<1>8. QED
  BY <1>2, <1>4, <1>6, <1>7 DEF begun

(* The input of a call.                                                    *)
LEMMA InputIs ==
    ASSUME NEW evs \in Seq(StreamEvents), NEW n
    PROVE  Input(evs, n) = Spread(evs, DeltaAt(n)) /\ Input(evs, n) \in Words
<1> DEFINE Is(e) == e.event = "content_block_delta" /\ e.block.type = "tool_use"
                   /\ e.index = n
           keep == [e \in StreamEvents |-> IF Is(e) THEN <<e>> ELSE <<>>]
           text == [e \in StreamEvents |-> e.block.text]
           deltas == Filter(evs, LAMBDA e : e.event = "content_block_delta"
                                              /\ e.block.type = "tool_use" /\ e.index = n)
<1>1. keep \in Makers(StreamEvents, StreamEvents)
  BY EmptySeq DEF Makers
<1>2. text \in Makers(StreamEvents, Strings)
  BY DEF StreamEvents, Blocks, Words, Makers
<1>3. \A i \in DOMAIN evs : evs[i] \in StreamEvents
  BY LenProperties, ElementOfSeq
<1>4. deltas = Spread(evs, keep)
  <2>1. [i \in DOMAIN evs |-> IF Is(evs[i]) THEN <<evs[i]>> ELSE <<>>]
           = [i \in DOMAIN evs |-> keep[evs[i]]]
    BY <1>3
  <2>2. QED
    BY <2>1 DEF Filter, Spread
<1>5. Input(evs, n) = FlattenSeq([i \in DOMAIN deltas |-> deltas[i].block.text])
  BY DEF Input
<1>6. \A x \in StreamEvents : DeltaAt(n)[x] = Spread(keep[x], text)
  <2>1. ASSUME NEW x \in StreamEvents PROVE DeltaAt(n)[x] = Spread(keep[x], text)
    <3>1. CASE Is(x)
      <4>1. Spread(<<x>>, text) = text[x]
        <5> HIDE DEF text
        <5>1. QED
          BY <1>2, SpreadOne
      <4>2. QED
        BY <3>1, <4>1 DEF DeltaAt
    <3>2. CASE ~Is(x)
      BY <3>2, SpreadNone DEF DeltaAt
    <3>3. QED
      BY <3>1, <3>2
  <2>2. QED
    BY <2>1
<1> HIDE DEF keep, text, deltas, Is
<1>7. deltas \in Seq(StreamEvents)
  BY <1>1, <1>4, SpreadType
<1>8. FlattenSeq([i \in DOMAIN deltas |-> deltas[i].block.text]) = Spread(deltas, text)
  <2>1. \A i \in DOMAIN deltas : deltas[i] \in StreamEvents
    BY <1>7, LenProperties, ElementOfSeq
  <2>2. [i \in DOMAIN deltas |-> deltas[i].block.text]
            = [i \in DOMAIN deltas |-> text[deltas[i]]]
    BY <2>1 DEF text
  <2>3. QED
    BY <2>2 DEF Spread
<1>9. Spread(Spread(evs, keep), text) = Spread(evs, DeltaAt(n))
  BY <1>1, <1>2, <1>3, <1>6, EventFunctions, SpreadTwice
<1>10. Spread(evs, DeltaAt(n)) \in Words
  BY EventFunctions, SpreadType DEF Words
<1>11. QED
  BY <1>4, <1>5, <1>8, <1>9, <1>10

(* The positions up to m in their order.                                   *)
LEMMA OrderedUpto ==
    ASSUME NEW m \in Nat
    PROVE  Ordered(1..m) = [k \in 1..m |-> k]
<1>1. Cardinality(1..m) = m
  BY FS_Interval
<1>2. ASSUME NEW i \in 1..m PROVE Cardinality({j \in 1..m : j < i}) = i - 1
  <2>1. {j \in 1..m : j < i} = 1..i - 1
    OBVIOUS
  <2>2. Cardinality(1..i - 1) = i - 1
    BY FS_Interval
  <2>3. QED
    BY <2>1, <2>2
<1>3. ASSUME NEW k \in 1..m
      PROVE  (CHOOSE i \in 1..m : Cardinality({j \in 1..m : j < i}) = k - 1) = k
  <2>1. \A i \in 1..m : Cardinality({j \in 1..m : j < i}) = k - 1 <=> i = k
    BY <1>2
  <2>2. QED
    BY <2>1
<1>4. QED
  BY <1>1, <1>3 DEF Ordered

(* The order of a set of numbers only names numbers of it.                 *)
LEMMA OrderedWithin ==
    ASSUME NEW S \in SUBSET Nat, IsFiniteSet(S)
    PROVE  /\ Cardinality(S) \in Nat /\ DOMAIN Ordered(S) = 1..Cardinality(S)
           /\ \A k \in DOMAIN Ordered(S) : Ordered(S)[k] \in S
<1> DEFINE n == Cardinality(S)
           Below(i) == {j \in S : j < i}
           rank == [i \in S |-> Cardinality(Below(i))]
           R == {rank[i] : i \in S}
<1>1. n \in Nat
  BY FS_CardinalityType
<1>2. \A i \in S : i \in Nat /\ Below(i) \in SUBSET S /\ i \notin Below(i)
  OBVIOUS
<1>3. ASSUME NEW i \in S, NEW j \in S, i < j
      PROVE  Below(i) \in SUBSET Below(j) /\ i \in Below(j)
  <2>1. \A k \in S : k < i => k < j
    BY <1>3
  <2>2. QED
    BY <1>3, <2>1
<1>4. \A i \in S : rank[i] = Cardinality(Below(i))
  OBVIOUS
<1>5. rank = [i \in S |-> rank[i]] /\ R = {rank[i] : i \in S}
  OBVIOUS
<1>6. DOMAIN Ordered(S) = 1..n
          /\ \A k \in 1..n : Ordered(S)[k] = CHOOSE i \in S : rank[i] = k - 1
  BY <1>4 DEF Ordered
<1>7. n = Cardinality(S)
  OBVIOUS
<1> HIDE DEF n, Below, rank, R
<1>8. ASSUME NEW i \in S PROVE IsFiniteSet(Below(i)) /\ rank[i] \in 0..n - 1
  <2>1. IsFiniteSet(Below(i)) /\ Cardinality(Below(i)) <= n /\ Cardinality(Below(i)) # n
    BY <1>2, <1>7, FS_Subset
  <2>2. Cardinality(Below(i)) \in Nat
    BY <2>1, FS_CardinalityType
  <2>3. QED
    BY <1>1, <1>4, <2>1, <2>2
<1>9. ASSUME NEW i \in S, NEW j \in S, i < j PROVE rank[i] < rank[j]
  <2>1. Below(i) \in SUBSET Below(j) /\ i \in Below(j) /\ i \notin Below(i)
    BY <1>2, <1>3, <1>9
  <2>2. /\ Cardinality(Below(i)) <= Cardinality(Below(j))
        /\ Cardinality(Below(i)) # Cardinality(Below(j))
    BY <1>8, <2>1, FS_Subset
  <2>3. rank[i] \in 0..n - 1 /\ rank[j] \in 0..n - 1
    BY <1>8
  <2>4. QED
    BY <1>1, <1>4, <2>2, <2>3
<1>10. ASSUME NEW i \in S, NEW j \in S, i # j PROVE rank[i] # rank[j]
  <2>1. i < j \/ j < i
    BY <1>2, <1>10
  <2>2. rank[i] \in Int /\ rank[j] \in Int
    BY <1>1, <1>8
  <2>3. QED
    BY <1>9, <2>1, <2>2
<1>11. R = 0..n - 1
  <2>1. rank \in Bijection(S, R)
    <3>1. rank \in [S -> R]
      BY <1>5
    <3>2. QED
      BY <1>5, <1>10, <3>1 DEF Bijection, Injection, Surjection, IsInjective
  <2>2. Cardinality(R) = n
    BY <1>7, <2>1, FS_Bijection DEF ExistsBijection
  <2>3. R \in SUBSET (0..n - 1)
    BY <1>5, <1>8
  <2>4. IsFiniteSet(0..n - 1) /\ Cardinality(0..n - 1) = n
    BY <1>1, FS_Interval
  <2>5. QED
    BY <2>2, <2>3, <2>4, FS_Subset
<1>12. ASSUME NEW k \in 1..n PROVE Ordered(S)[k] \in S /\ rank[Ordered(S)[k]] = k - 1
  <2>1. k - 1 \in R
    BY <1>1, <1>11
  <2>2. \E i \in S : rank[i] = k - 1
    BY <1>5, <2>1
  <2>3. QED
    BY <1>6, <2>2
<1>13. QED
  BY <1>1, <1>6, <1>7, <1>12

(* What the agent makes of an answer.                                      *)
LEMMA GatheredIs ==
    ASSUME NEW evs \in Seq(StreamEvents)
    PROVE  LET S == {Begun(evs)[i].index : i \in DOMAIN Begun(evs)}
               uses == [k \in DOMAIN Ordered(S) |-> Use(evs, Ordered(S)[k])]
           IN  Gathered(evs) =
                  (IF Said(evs) = <<>> THEN <<>> ELSE <<Text(Said(evs))>>) \o uses
<1>1. {e.index : e \in Range(Begun(evs))}
          = {Begun(evs)[i].index : i \in DOMAIN Begun(evs)}
  BY DEF Range
<1>2. QED
  BY <1>1 DEF Gathered

-----------------------------------------------------------------------------
(* A chunk on its way through the proxy: what each piece becomes.          *)
GoodFrag(f) == \/ f.name # NoName /\ f.args = <<>>
               \/ f.name = NoName /\ f.id = NoId /\ f.args # <<>>
Piece(x) ==
    /\ x \in Chunks /\ ~x.usage /\ x.finish = ""
    /\ \/ x.calls = <<>>
       \/ x.text = <<>> /\ \E f \in Frags : GoodFrag(f) /\ x.calls = <<f>>

FragEvent(f) ==
    IF f.name # NoName THEN Event("content_block_start", f.index,
        ToolUse(f.id, f.name, <<>>))
    ELSE Event("content_block_delta", f.index, ToolUse(NoId, NoName, f.args))

EventsOf == [f \in Frags |-> CallEvents(f)]
Told == [x \in Chunks |-> ChunkToEvents(x, FALSE)]
Tell(x) ==
    IF x.usage THEN <<MessageDelta(""), MessageStop>>
    ELSE (IF x.text # <<>> THEN <<Event("content_block_delta", 0, Text(x.text))>>
        ELSE <<>>)
           \o Spread(x.calls, EventsOf)
           \o (IF x.finish = "" THEN <<>>
               ELSE <<MessageDelta(IF x.finish = "tool_calls" THEN "tool_use"
                   ELSE "end_turn")>>)

(* The events the proxy makes are events.                                  *)
LEMMA EventTypes ==
    /\ \A i \in Nat, t \in Words :
           Event("content_block_delta", i, Text(t)) \in StreamEvents
    /\ \A i \in Nat, d \in Ids, a \in Strings, t \in Words, e \in Strings :
          Event(e, i, ToolUse(d, a, t)) \in StreamEvents
    /\ MessageStart \in StreamEvents /\ MessageStop \in StreamEvents
    /\ \A r \in Strings : MessageDelta(r) \in StreamEvents
<1>1. NoId \in Ids /\ <<>> \in Words /\ NoName \in Strings
  BY NoIdIsId, StringsAre
<1>2. \A t \in Words : Text(t) \in Blocks
  BY <1>1, StringsAre DEF Text, Block, Blocks
<1>3. \A d \in Ids, a \in Strings, t \in Words : ToolUse(d, a, t) \in Blocks
  BY <1>1, StringsAre DEF ToolUse, Block, Blocks
<1>4. NoBlock \in Blocks /\ \A r \in Strings : [NoBlock EXCEPT !.name = r] \in Blocks
  BY <1>1, StringsAre DEF NoBlock, Block, Blocks
<1>5. \A e \in Strings, i \in Nat, b \in Blocks : Event(e, i, b) \in StreamEvents
  BY DEF Event, StreamEvents
<1>6. QED
  BY <1>1, <1>2, <1>3, <1>4, <1>5, StringsAre DEF MessageStart, MessageStop, MessageDelta

(* A fragment makes events.                                                *)
LEMMA EventsOfType == EventsOf \in Makers(Frags, StreamEvents)
<1> SUFFICES ASSUME NEW f \in Frags PROVE CallEvents(f) \in Seq(StreamEvents)
  BY DEF EventsOf, Makers
<1> DEFINE a == IF f.name # NoName THEN <<Event("content_block_start", f.index,
                   ToolUse(f.id, f.name, <<>>))>> ELSE <<>>
           b == IF f.args # <<>> THEN <<Event("content_block_delta", f.index,
                   ToolUse(NoId, NoName, f.args))>> ELSE <<>>
<1>1. f.index \in Nat /\ f.id \in Ids /\ f.name \in Strings /\ f.args \in Words
          /\ NoName \in Strings
  BY StringsAre DEF Frags
<1>2. a \in Seq(StreamEvents)
  <2>1. Event("content_block_start", f.index,
            ToolUse(f.id, f.name, <<>>)) \in StreamEvents
    BY <1>1, NoIdIsId, EventTypes, StringsAre
  <2>2. QED
    BY <2>1, EmptySeq, OneOrTwo
<1>3. b \in Seq(StreamEvents)
  <2>1. Event("content_block_delta", f.index,
            ToolUse(NoId, NoName, f.args)) \in StreamEvents
    BY <1>1, NoIdIsId, EventTypes, StringsAre
  <2>2. QED
    BY <2>1, EmptySeq, OneOrTwo
<1>4. CallEvents(f) = a \o b
  BY DEF CallEvents
<1> HIDE DEF a, b
<1>5. QED
  BY <1>2, <1>3, <1>4, ConcatProperties

(* A chunk makes events.                                                   *)
LEMMA ToldIs ==
    /\ Told \in Makers(Chunks, StreamEvents)
    /\ \A x \in Chunks : Told[x] = Tell(x)
<1>1. ASSUME NEW x \in Chunks PROVE Told[x] = Tell(x) /\ Told[x] \in Seq(StreamEvents)
  <2> DEFINE a == IF x.text # <<>> THEN <<Event("content_block_delta", 0, Text(x.text))>>
                     ELSE <<>>
             b == FlattenSeq([i \in DOMAIN x.calls |-> CallEvents(x.calls[i])])
             c == IF x.finish = "" THEN <<>>
                  ELSE <<MessageDelta(IF x.finish = "tool_calls" THEN "tool_use"
                      ELSE "end_turn")>>
  <2>1. x.text \in Words /\ x.calls \in Seq(Frags)
    BY DEF Chunks
  <2>2. a \in Seq(StreamEvents)
    BY <2>1, EventTypes, EmptySeq
  <2>3. b = Spread(x.calls, EventsOf) /\ b \in Seq(StreamEvents)
    <3>1. \A i \in DOMAIN x.calls : x.calls[i] \in Frags
      BY <2>1, LenProperties, ElementOfSeq
    <3>2. [i \in DOMAIN x.calls |-> CallEvents(x.calls[i])]
              = [i \in DOMAIN x.calls |-> EventsOf[x.calls[i]]]
      BY <3>1 DEF EventsOf
    <3>3. b = Spread(x.calls, EventsOf)
      BY <3>2 DEF Spread
    <3> HIDE DEF b
    <3>4. QED
      BY <2>1, <3>3, EventsOfType, SpreadType
  <2>4. c \in Seq(StreamEvents)
    <3>1. (IF x.finish = "tool_calls" THEN "tool_use" ELSE "end_turn") \in Strings
      BY StringsAre
    <3>2. MessageDelta(IF x.finish = "tool_calls" THEN "tool_use"
              ELSE "end_turn") \in StreamEvents
      BY <3>1, EventTypes
    <3>3. QED
      BY <3>2, EmptySeq, OneOrTwo
  <2>5. Told[x] = IF x.usage THEN <<MessageDelta(""), MessageStop>>
            ELSE ((<<>> \o a) \o b) \o c
    BY DEF Told, ChunkToEvents
  <2>6. Tell(x) = IF x.usage THEN <<MessageDelta(""), MessageStop>> ELSE (a \o b) \o c
    BY <2>3 DEF Tell
  <2>7. <<MessageDelta(""), MessageStop>> \in Seq(StreamEvents)
    <3>1. MessageDelta("") \in StreamEvents /\ MessageStop \in StreamEvents
      BY EventTypes, StringsAre
    <3>2. QED
      BY <3>1, OneOrTwo
  <2> HIDE DEF a, b, c
  <2>8. <<>> \o a = a
    BY <2>2, ConcatEmptySeq
  <2>9. (a \o b) \o c \in Seq(StreamEvents)
    BY <2>2, <2>3, <2>4, ConcatProperties
  <2>10. QED
    BY <2>5, <2>6, <2>7, <2>8, <2>9
<1>2. Told = [x \in Chunks |-> Told[x]]
  BY DEF Told
<1>3. Told \in Makers(Chunks, StreamEvents)
  <2> HIDE DEF Told
  <2>1. QED
    BY <1>1, <1>2 DEF Makers
<1>4. QED
  BY <1>1, <1>3

(* A fragment that names a call, or has arguments, is one event.           *)
LEMMA FragEventIs ==
    ASSUME NEW f \in Frags, GoodFrag(f)
    PROVE  EventsOf[f] = <<FragEvent(f)>> /\ FragEvent(f) \in StreamEvents
<1>1. f.index \in Nat /\ f.id \in Ids /\ f.name \in Strings /\ f.args \in Words
          /\ NoName \in Strings
      /\ NoId \in Ids /\ <<>> \in Words
  BY NoIdIsId, StringsAre DEF Frags
<1>2. FragEvent(f) \in StreamEvents
  BY <1>1, EventTypes, StringsAre DEF FragEvent
<1>3. EventsOf[f] = CallEvents(f)
  BY DEF EventsOf
<1>4. CallEvents(f) = <<FragEvent(f)>>
  <2>1. CASE f.name # NoName /\ f.args = <<>>
    <3>1. CallEvents(f) = <<FragEvent(f)>> \o <<>>
      BY <2>1 DEF CallEvents, FragEvent
    <3>2. <<FragEvent(f)>> \in Seq(StreamEvents)
      BY <1>2
    <3>3. QED
      BY <3>1, <3>2, ConcatEmptySeq
  <2>2. CASE f.name = NoName /\ f.args # <<>>
    <3>1. CallEvents(f) = <<>> \o <<FragEvent(f)>>
      BY <2>2 DEF CallEvents, FragEvent
    <3>2. <<FragEvent(f)>> \in Seq(StreamEvents)
      BY <1>2
    <3>3. QED
      BY <3>1, <3>2, ConcatEmptySeq
  <2>3. QED
    BY <2>1, <2>2 DEF GoodFrag
<1>5. QED
  BY <1>2, <1>3, <1>4

(* A piece of a reply is one event.                                        *)
LEMMA ToldPiece ==
    ASSUME NEW x, Piece(x)
    PROVE  /\ x.calls = <<>> =>
                Told[x] = IF x.text # <<>>
                    THEN <<Event("content_block_delta", 0, Text(x.text))>> ELSE <<>>
           /\ \A f \in Frags : x.calls = <<f>> =>
                x.text = <<>> /\ GoodFrag(f) /\ Told[x] = <<FragEvent(f)>>
<1> DEFINE a == IF x.text # <<>> THEN <<Event("content_block_delta", 0, Text(x.text))>>
                   ELSE <<>>
<1>1. x \in Chunks /\ x.text \in Words /\ x.calls \in Seq(Frags)
  BY DEF Piece, Chunks
<1>2. a \in Seq(StreamEvents)
  BY <1>1, EventTypes, EmptySeq
<1>3. Told[x] = (a \o Spread(x.calls, EventsOf)) \o <<>>
  BY <1>1, ToldIs DEF Tell, Piece
<1>4. Spread(x.calls, EventsOf) \in Seq(StreamEvents)
  BY <1>1, EventsOfType, SpreadType
<1>5. x.calls = <<>> => Told[x] = a
  <2> HIDE DEF a
  <2> SUFFICES ASSUME x.calls = <<>> PROVE Told[x] = a
    OBVIOUS
  <2>1. Spread(x.calls, EventsOf) = <<>>
    BY SpreadNone
  <2>2. QED
    BY <1>2, <1>3, <2>1, ConcatEmptySeq
<1>6. ASSUME NEW f \in Frags, x.calls = <<f>>
      PROVE  x.text = <<>> /\ GoodFrag(f) /\ Told[x] = <<FragEvent(f)>>
  <2>1. x.text = <<>> /\ GoodFrag(f)
    <3>1. x.calls # <<>> /\ \A g : x.calls = <<g>> => g = f
      BY <1>6, OneOrTwo
    <3>2. QED
      BY <3>1 DEF Piece
  <2>2. Spread(x.calls, EventsOf) = <<FragEvent(f)>>
    BY <1>6, <2>1, FragEventIs, SpreadOne, EventsOfType
  <2>3. a = <<>> /\ <<FragEvent(f)>> \in Seq(StreamEvents)
    BY <2>1, FragEventIs
  <2>4. (<<>> \o <<FragEvent(f)>>) \o <<>> = <<FragEvent(f)>>
    BY <2>3, ConcatEmptySeq
  <2>5. QED
    BY <1>3, <2>1, <2>2, <2>3, <2>4
<1>7. QED
  BY <1>5, <1>6

-----------------------------------------------------------------------------
(* What can be read in a chunk, and what can be read in its events.        *)
SaidIn == [x \in Chunks |-> x.text]
CallsIn == [x \in Chunks |-> x.calls]
Only(c) == [f \in Frags |-> IF f.index = c THEN <<f>> ELSE <<>>]
FragsOf(c) == [x \in Chunks |-> Spread(x.calls, Only(c))]
StartOf == [f \in Frags |-> IF f.name # NoName THEN <<FragEvent(f)>> ELSE <<>>]
ArgsOf == [f \in Frags |-> f.args]
BackOf == [e \in StreamEvents |-> EventToChunk(e)]
BackCalls == [e \in StreamEvents |-> Spread(EventToChunk(e), CallsIn)]

(* What is in a chunk.                                                     *)
LEMMA ChunkFunctions ==
    /\ SaidIn \in Makers(Chunks, Strings) /\ CallsIn \in Makers(Chunks, Frags)
    /\ \A c : Only(c) \in Makers(Frags, Frags) /\ FragsOf(c) \in Makers(Chunks, Frags)
    /\ StartOf \in Makers(Frags, StreamEvents) /\ ArgsOf \in Makers(Frags, Strings)
<1>1. SaidIn \in Makers(Chunks, Strings)
  BY DEF SaidIn, Chunks, Words, Makers
<1>2. CallsIn \in Makers(Chunks, Frags)
  BY DEF CallsIn, Chunks, Makers
<1>3. ASSUME NEW c PROVE Only(c) \in Makers(Frags, Frags)
                 /\ FragsOf(c) \in Makers(Chunks, Frags)
  <2>1. Only(c) \in Makers(Frags, Frags)
    BY EmptySeq, OneOrTwo DEF Only, Makers
  <2>2. \A x \in Chunks : Spread(x.calls, Only(c)) \in Seq(Frags)
    <3>1. \A x \in Chunks : x.calls \in Seq(Frags)
      BY DEF Chunks
    <3>2. QED
      BY <2>1, <3>1, SpreadType
  <2>3. QED
    BY <2>1, <2>2 DEF FragsOf, Makers
<1>4. StartOf \in Makers(Frags, StreamEvents)
  <2>1. ASSUME NEW f \in Frags, f.name # NoName PROVE FragEvent(f) \in StreamEvents
    <3>1. f.index \in Nat /\ f.id \in Ids /\ f.name \in Strings /\ <<>> \in Words
      BY NoIdIsId DEF Frags
    <3>2. QED
      BY <2>1, <3>1, EventTypes, StringsAre DEF FragEvent
  <2>2. QED
    BY <2>1, EmptySeq, OneOrTwo DEF StartOf, Makers
<1>5. ArgsOf \in Makers(Frags, Strings)
  BY DEF ArgsOf, Frags, Words, Makers
<1>6. QED
  BY <1>1, <1>2, <1>3, <1>4, <1>5

(* The reason in a sequence of one chunk.                                  *)
LEMMA OneFinish ==
    ASSUME NEW S, NEW y \in S, NEW s, s = <<y>>, NEW r, y.finish = r
    PROVE  s \in Seq(S) /\ \A k \in DOMAIN s : s[k].finish = r
OBVIOUS

(* An event makes chunks, with a reason if it has one.                     *)
LEMMA BackTypes ==
    /\ BackOf \in Makers(StreamEvents, Chunks)
           /\ BackCalls \in Makers(StreamEvents, Frags)
    /\ \A e \in StreamEvents : \A k \in DOMAIN BackOf[e] : BackOf[e][k].finish =
          IF e.event = "message_delta" /\ e.block.name # ""
          THEN (IF e.block.name = "tool_use" THEN "tool_calls" ELSE "stop") ELSE ""
<1>1. ASSUME NEW t \in Words, NEW s \in Seq(Frags) PROVE Chunk(FALSE, t, s) \in Chunks
  BY StringsAre DEF Chunk, Chunks
<1>2. ASSUME NEW t \in Words, NEW s \in Seq(Frags), NEW r \in Strings
      PROVE  [Chunk(FALSE, t, s) EXCEPT !.finish = r] \in Chunks
             /\ [Chunk(FALSE, t, s) EXCEPT !.finish = r].finish = r
  BY StringsAre DEF Chunk, Chunks
<1>3. ASSUME NEW i \in Nat, NEW d \in Ids, NEW n \in Strings, NEW a \in Words
      PROVE  Fragment(i, d, n, a) \in Frags /\ <<Fragment(i, d, n, a)>> \in Seq(Frags)
  <2>1. Fragment(i, d, n, a) \in Frags
    BY DEF Fragment, Frags
  <2>2. QED
    BY <2>1, OneOrTwo
<1>4. \A t, s : Chunk(FALSE, t, s).finish = ""
  BY DEF Chunk
<1>5. ASSUME NEW e \in StreamEvents
      PROVE  /\ EventToChunk(e) \in Seq(Chunks)
             /\ \A k \in DOMAIN EventToChunk(e) : EventToChunk(e)[k].finish =
                   IF e.event = "message_delta" /\ e.block.name # ""
                   THEN (IF e.block.name = "tool_use" THEN "tool_calls" ELSE "stop")
                       ELSE ""
  <2>1. /\ e.index \in Nat /\ e.block.text \in Words /\ e.block.id \in Ids
               /\ e.block.name \in Strings
        /\ NoId \in Ids /\ <<>> \in Words /\ NoName \in Strings /\ <<>> \in Seq(Frags)
    BY NoIdIsId, StringsAre, EmptySeq DEF StreamEvents, Blocks
  <2>2. CASE e.event = "content_block_delta" /\ e.block.type = "text"
    <3>1. EventToChunk(e) = <<Chunk(FALSE, e.block.text, <<>>)>>
      BY <2>2 DEF EventToChunk
    <3>2. Chunk(FALSE, e.block.text, <<>>) \in Chunks
              /\ Chunk(FALSE, e.block.text, <<>>).finish = ""
      BY <1>1, <1>4, <2>1
    <3>3. QED
      BY <2>2, <3>1, <3>2, OneFinish
  <2>3. CASE e.event = "content_block_delta" /\ e.block.type # "text"
    <3>1. EventToChunk(e) = <<Chunk(FALSE, <<>>,
              <<Fragment(e.index, NoId, NoName, e.block.text)>>)>>
      BY <2>3 DEF EventToChunk
    <3>2. Chunk(FALSE, <<>>, <<Fragment(e.index, NoId, NoName, e.block.text)>>) \in Chunks
      BY <1>1, <1>3, <2>1
    <3>3. Chunk(FALSE, <<>>, <<Fragment(e.index, NoId, NoName, e.block.text)>>).finish
              = ""
      BY <1>4
    <3>4. QED
      BY <2>3, <3>1, <3>2, <3>3, OneFinish
  <2>4. CASE e.event = "content_block_start"
    <3>1. EventToChunk(e) = <<Chunk(FALSE, <<>>,
              <<Fragment(e.index, e.block.id, e.block.name, <<>>)>>)>>
      BY <2>4 DEF EventToChunk
    <3>2. Chunk(FALSE, <<>>, <<Fragment(e.index, e.block.id, e.block.name,
              <<>>)>>) \in Chunks
      BY <1>1, <1>3, <2>1
    <3>3. Chunk(FALSE, <<>>, <<Fragment(e.index, e.block.id, e.block.name,
              <<>>)>>).finish = ""
      BY <1>4
    <3>4. QED
      BY <2>4, <3>1, <3>2, <3>3, OneFinish
  <2>5. CASE e.event = "message_delta" /\ e.block.name # ""
    <3> DEFINE r == IF e.block.name = "tool_use" THEN "tool_calls" ELSE "stop"
    <3>1. EventToChunk(e) = <<[Chunk(FALSE, <<>>, <<>>) EXCEPT !.finish = r]>>
      BY <2>5 DEF EventToChunk
    <3>2. r \in Strings
      BY StringsAre
    <3> HIDE DEF r
    <3>3. [Chunk(FALSE, <<>>, <<>>) EXCEPT !.finish = r] \in Chunks
          /\ [Chunk(FALSE, <<>>, <<>>) EXCEPT !.finish = r].finish = r
      BY <1>2, <2>1, <3>2
    <3>4. EventToChunk(e) \in Seq(Chunks)
              /\ \A k \in DOMAIN EventToChunk(e) : EventToChunk(e)[k].finish = r
      BY <3>1, <3>3, OneFinish
    <3>5. QED
      BY <2>5, <3>4 DEF r
  <2>6. CASE /\ e.event # "content_block_delta" /\ e.event # "content_block_start"
             /\ ~(e.event = "message_delta" /\ e.block.name # "")
    <3>1. EventToChunk(e) = <<>>
      BY <2>6 DEF EventToChunk
    <3>2. QED
      BY <3>1, EmptySeq
  <2>7. QED
    BY <2>2, <2>3, <2>4, <2>5, <2>6
<1>6. BackOf \in Makers(StreamEvents, Chunks)
  BY <1>5 DEF BackOf, Makers
<1>7. BackCalls \in Makers(StreamEvents, Frags)
  <2>1. \A e \in StreamEvents : Spread(EventToChunk(e), CallsIn) \in Seq(Frags)
    BY <1>5, ChunkFunctions, SpreadType
  <2>2. QED
    BY <2>1 DEF BackCalls, Makers
<1>8. QED
  BY <1>5, <1>6, <1>7 DEF BackOf

(* A reading of the events of a piece.                                     *)
LEMMA ToldRead ==
    ASSUME NEW x, Piece(x), NEW D, NEW g \in Makers(StreamEvents, D)
    PROVE  /\ x.calls = <<>> => Spread(Told[x], g) =
                IF x.text = <<>> THEN <<>>
                    ELSE g[Event("content_block_delta", 0, Text(x.text))]
           /\ \A f \in Frags : x.calls = <<f>> =>
                x.text = <<>> /\ GoodFrag(f) /\ Spread(Told[x], g) = g[FragEvent(f)]
<1>1. ASSUME x.calls = <<>>
      PROVE  Spread(Told[x], g) =
                IF x.text = <<>> THEN <<>>
                    ELSE g[Event("content_block_delta", 0, Text(x.text))]
  <2>1. CASE x.text = <<>>
    BY <1>1, <2>1, ToldPiece, SpreadNone
  <2>2. CASE x.text # <<>>
    <3>1. Told[x] = <<Event("content_block_delta", 0, Text(x.text))>>
      BY <1>1, <2>2, ToldPiece
    <3>2. Event("content_block_delta", 0, Text(x.text)) \in StreamEvents
      BY EventTypes DEF Piece, Chunks
    <3>3. QED
      BY <2>2, <3>1, <3>2, SpreadOne
  <2>3. QED
    BY <2>1, <2>2
<1>2. ASSUME NEW f \in Frags, x.calls = <<f>>
      PROVE  x.text = <<>> /\ GoodFrag(f) /\ Spread(Told[x], g) = g[FragEvent(f)]
  <2>1. x.text = <<>> /\ GoodFrag(f) /\ Told[x] = <<FragEvent(f)>>
    BY <1>2, ToldPiece
  <2>2. QED
    BY <2>1, FragEventIs, SpreadOne
<1>3. QED
  BY <1>1, <1>2

(* The fragment of a call in a piece.                                      *)
LEMMA FragsOfOne ==
    ASSUME NEW x \in Chunks, NEW c
    PROVE  /\ x.calls = <<>> => FragsOf(c)[x] = <<>>
           /\ \A f \in Frags : x.calls = <<f>> => FragsOf(c)[x] = Only(c)[f]
<1>1. FragsOf(c)[x] = Spread(x.calls, Only(c))
  BY DEF FragsOf
<1>2. x.calls = <<>> => FragsOf(c)[x] = <<>>
  BY <1>1, SpreadNone
<1>3. ASSUME NEW f \in Frags, x.calls = <<f>> PROVE FragsOf(c)[x] = Only(c)[f]
  BY <1>1, <1>3, ChunkFunctions, SpreadOne
<1>4. QED
  BY <1>2, <1>3

(* An answer of one chunk.                                                 *)
LEMMA CallsOfOne == ASSUME NEW x \in Chunks PROVE Spread(<<x>>, CallsIn) = x.calls
<1>1. CallsIn[x] = x.calls
  BY DEF CallsIn
<1>2. QED
  BY <1>1, ChunkFunctions, SpreadOne

(* What is read out of the events of a piece is what is in it.             *)
LEMMA PieceReads ==
    ASSUME NEW x, Piece(x)
    PROVE  /\ Spread(Told[x], TextOfEvent) = SaidIn[x]
           /\ Spread(Told[x], BackCalls) = CallsIn[x]
           /\ \A c : /\ Spread(Told[x], BegunAt(c)) = Spread(FragsOf(c)[x], StartOf)
                     /\ Spread(Told[x], DeltaAt(c)) = Spread(FragsOf(c)[x], ArgsOf)
<1>1. x \in Chunks /\ x.text \in Words /\ SaidIn[x] = x.text /\ CallsIn[x] = x.calls
  BY DEF Piece, Chunks, SaidIn, CallsIn
<1> DEFINE e == Event("content_block_delta", 0, Text(x.text))
<1>2. CASE x.calls = <<>>
  <2>1. /\ e \in StreamEvents /\ e.event = "content_block_delta" /\ e.block.type = "text"
        /\ e.block.text = x.text
    BY <1>1, EventTypes DEF Event, Text, Block
  <2>2. /\ TextOfEvent[e] = x.text /\ BackCalls[e] = <<>>
        /\ \A c : BegunAt(c)[e] = <<>> /\ DeltaAt(c)[e] = <<>>
    <3>1. TextOfEvent[e] = x.text /\ \A c : BegunAt(c)[e] = <<>> /\ DeltaAt(c)[e] = <<>>
      BY <2>1 DEF TextOfEvent, BegunAt, DeltaAt
    <3>2. EventToChunk(e) = <<Chunk(FALSE, x.text, <<>>)>>
      BY <2>1 DEF EventToChunk
    <3>3. Chunk(FALSE, x.text, <<>>) \in Chunks /\ Chunk(FALSE, x.text, <<>>).calls = <<>>
      BY <1>1, StringsAre, EmptySeq DEF Chunk, Chunks
    <3>4. Spread(<<Chunk(FALSE, x.text, <<>>)>>, CallsIn) = <<>>
      BY <3>3, CallsOfOne
    <3>5. QED
      BY <2>1, <3>1, <3>2, <3>4 DEF BackCalls
  <2> HIDE DEF e
  <2>3. \A c : FragsOf(c)[x] = <<>>
    BY <1>1, <1>2, FragsOfOne
  <2>4. /\ Spread(Told[x], TextOfEvent) = x.text /\ Spread(Told[x], BackCalls) = <<>>
        /\ \A c : Spread(Told[x], BegunAt(c)) = <<>> /\ Spread(Told[x], DeltaAt(c)) = <<>>
    <3>1. ASSUME NEW D, NEW g \in Makers(StreamEvents, D)
          PROVE  Spread(Told[x], g) = IF x.text = <<>> THEN <<>> ELSE g[e]
      BY <1>2, <3>1, ToldRead DEF e
    <3>2. QED
      BY <2>2, <3>1, EventFunctions, BackTypes
  <2>5. QED
    BY <1>1, <1>2, <2>3, <2>4, SpreadNone
<1>3. CASE \E f \in Frags : x.calls = <<f>>
  <2>1. PICK f \in Frags : x.calls = <<f>>
    BY <1>3
  <2> DEFINE d == FragEvent(f)
  <2>2. /\ x.text = <<>> /\ GoodFrag(f) /\ d \in StreamEvents
        /\ Spread(Told[x], TextOfEvent) = TextOfEvent[d]
               /\ Spread(Told[x], BackCalls) = BackCalls[d]
        /\ \A c : /\ Spread(Told[x], BegunAt(c)) = BegunAt(c)[d]
                  /\ Spread(Told[x], DeltaAt(c)) = DeltaAt(c)[d]
    BY <2>1, ToldRead, FragEventIs, EventFunctions, BackTypes
  <2>3. /\ d.block.type = "tool_use" /\ d.index = f.index
        /\ d.event = IF f.name # NoName THEN "content_block_start"
               ELSE "content_block_delta"
        /\ d.block.id = f.id /\ d.block.name = f.name
        /\ d.block.text = f.args
    BY <2>2 DEF FragEvent, GoodFrag, Event, ToolUse, Block
  <2>4. TextOfEvent[d] = <<>>
    BY <2>2, <2>3 DEF TextOfEvent
  <2>5. BackCalls[d] = <<f>>
    <3>1. EventToChunk(d) = <<Chunk(FALSE, <<>>, <<f>>)>>
      <4>1. f = Fragment(f.index, f.id, f.name, f.args)
        BY DEF Frags, Fragment
      <4>2. CASE f.name # NoName
        <5>1. EventToChunk(d) = <<Chunk(FALSE, <<>>,
                  <<Fragment(d.index, d.block.id, d.block.name, <<>>)>>)>>
          BY <2>3, <4>2 DEF EventToChunk
        <5>2. f.args = <<>>
          BY <2>2, <4>2 DEF GoodFrag
        <5>3. QED
          BY <2>3, <4>1, <5>1, <5>2
      <4>3. CASE f.name = NoName
        <5>1. EventToChunk(d) = <<Chunk(FALSE, <<>>,
                  <<Fragment(d.index, NoId, NoName, d.block.text)>>)>>
          BY <2>3, <4>3 DEF EventToChunk
        <5>2. f.id = NoId
          BY <2>2, <4>3 DEF GoodFrag
        <5>3. QED
          BY <2>3, <4>1, <4>3, <5>1, <5>2
      <4>4. QED
        BY <4>2, <4>3
    <3>2. Chunk(FALSE, <<>>, <<f>>) \in Chunks /\ Chunk(FALSE, <<>>, <<f>>).calls = <<f>>
      <4>1. <<f>> \in Seq(Frags)
        BY OneOrTwo
      <4>2. QED
        BY <4>1, StringsAre, NoIdIsId DEF Chunk, Chunks
    <3>3. Spread(<<Chunk(FALSE, <<>>, <<f>>)>>, CallsIn) = <<f>>
      BY <3>2, CallsOfOne
    <3>4. QED
      BY <2>2, <3>1, <3>3 DEF BackCalls
  <2>6. ASSUME NEW c
        PROVE  /\ BegunAt(c)[d] = Spread(FragsOf(c)[x], StartOf)
               /\ DeltaAt(c)[d] = Spread(FragsOf(c)[x], ArgsOf)
    <3>1. FragsOf(c)[x] = IF f.index = c THEN <<f>> ELSE <<>>
      BY <1>1, <2>1, FragsOfOne DEF Only
    <3>2. CASE f.index = c
      <4>1. Spread(<<f>>, StartOf) = StartOf[f] /\ Spread(<<f>>, ArgsOf) = f.args
        BY ChunkFunctions, SpreadOne DEF ArgsOf
      <4>2. BegunAt(c)[d] = StartOf[f]
        BY <2>2, <2>3, <3>2 DEF BegunAt, StartOf
      <4>3. DeltaAt(c)[d] = f.args
        BY <2>2, <2>3, <3>2 DEF DeltaAt, GoodFrag
      <4>4. QED
        BY <3>1, <3>2, <4>1, <4>2, <4>3
    <3>3. CASE f.index # c
      <4>1. BegunAt(c)[d] = <<>> /\ DeltaAt(c)[d] = <<>>
        BY <2>2, <2>3, <3>3 DEF BegunAt, DeltaAt
      <4>2. QED
        BY <3>1, <3>3, <4>1, SpreadNone
    <3>4. QED
      BY <3>2, <3>3
  <2> HIDE DEF d
  <2>7. QED
    BY <1>1, <2>1, <2>2, <2>4, <2>5, <2>6
<1>4. QED
  BY <1>2, <1>3 DEF Piece

-----------------------------------------------------------------------------
(* A whole answer: all fragments of all calls have been sent.              *)
WireCalls == [id : Ids, name : Strings, args : Words]
NamedCall(call) == call \in WireCalls /\ call.name # NoName

(* The fragments of a call: one names it, the others are its arguments.    *)
LEMMA FragmentsAre ==
    ASSUME NEW c \in Nat, NEW call, NamedCall(call)
    PROVE  /\ Fragments(c, call) \in Seq(Frags)
                  /\ Len(Fragments(c, call)) = Len(call.args) + 1
           /\ Fragments(c, call)[1] = Fragment(c, call.id, call.name, <<>>)
           /\ \A k \in 1..Len(call.args) :
                 Fragments(c, call)[k + 1] = Fragment(c, NoId, NoName, <<call.args[k]>>)
           /\ \A k \in DOMAIN Fragments(c, call) :
                 Fragments(c, call)[k].index = c /\ GoodFrag(Fragments(c, call)[k])
           /\ Spread(Fragments(c, call), ArgsOf) = call.args
           /\ Spread(Fragments(c, call), StartOf) =
                 <<Event("content_block_start", c, ToolUse(call.id, call.name, <<>>))>>
<1> DEFINE one == Fragment(c, call.id, call.name, <<>>)
           rest == [k \in DOMAIN call.args |-> Fragment(c, NoId, NoName,
                   <<call.args[k]>>)]
           unit == [w \in Strings |-> <<w>>]
<1>1. call.id \in Ids /\ call.name \in Strings /\ call.name # NoName
          /\ call.args \in Seq(Strings)
  BY DEF NamedCall, WireCalls, Words
<1>2. /\ Len(call.args) \in Nat /\ DOMAIN call.args = 1..Len(call.args)
      /\ \A k \in DOMAIN call.args : call.args[k] \in Strings
  BY <1>1, LenProperties, ElementOfSeq
<1>3. one \in Frags /\ one.index = c /\ one.name # NoName /\ one.args = <<>>
      /\ one.id = call.id /\ one.name = call.name
  BY <1>1, NoIdIsId DEF Frags, Fragment
<1>4. ASSUME NEW k \in DOMAIN call.args
      PROVE  /\ rest[k] \in Frags /\ rest[k].index = c /\ rest[k].name = NoName
                    /\ rest[k].id = NoId
             /\ rest[k].args = <<call.args[k]>>
  <2>1. <<call.args[k]>> \in Words
    BY <1>2, OneOrTwo DEF Words
  <2>2. QED
    BY <2>1, NoIdIsId, StringsAre DEF Frags, Fragment
<1>5. rest \in Seq(Frags) /\ Len(rest) = Len(call.args) /\ DOMAIN rest = DOMAIN call.args
  <2>1. DOMAIN rest = 1..Len(call.args)
    BY <1>2
  <2>2. rest \in Seq(Frags)
    <3>1. rest = [k \in 1..Len(call.args) |-> rest[k]]
      BY <2>1
    <3>2. \A k \in 1..Len(call.args) : rest[k] \in Frags
      BY <1>2, <1>4
    <3> HIDE DEF rest
    <3>3. QED
      BY <1>2, <3>1, <3>2
  <2>3. QED
    BY <1>2, <2>1, <2>2, LenProperties
<1>6. Fragments(c, call) = <<one>> \o rest
  BY DEF Fragments
<1>7. <<one>> \in Seq(Frags) /\ Len(<<one>>) = 1
  BY <1>3, OneOrTwo
<1>8. Spread(rest, ArgsOf) = call.args
  <2>1. [i \in DOMAIN rest |-> ArgsOf[rest[i]]]
            = [i \in DOMAIN call.args |-> unit[call.args[i]]]
    <3>1. ASSUME NEW i \in DOMAIN call.args PROVE ArgsOf[rest[i]] = unit[call.args[i]]
      <4>1. ArgsOf[rest[i]] = rest[i].args
        BY <1>4 DEF ArgsOf
      <4>2. QED
        BY <1>2, <1>4, <4>1
    <3> HIDE DEF rest, unit
    <3>2. QED
      BY <1>5, <3>1
  <2>2. unit \in Makers(Strings, Strings) /\ \A w \in Strings : unit[w] = <<w>>
    BY OneOrTwo DEF Makers
  <2> HIDE DEF rest, unit
  <2>3. Spread(call.args, unit) = call.args
    BY <1>1, <2>2, SpreadUnit
  <2>4. QED
    BY <2>1, <2>3 DEF Spread
<1>9. Spread(rest, StartOf) = <<>>
  <2>1. \A k \in DOMAIN rest : StartOf[rest[k]] = <<>>
    BY <1>4, <1>5 DEF StartOf
  <2> HIDE DEF rest
  <2>2. QED
    BY <1>5, <2>1, ChunkFunctions, SpreadEmpty
<1>10. GoodFrag(one) /\ \A k \in DOMAIN call.args : GoodFrag(rest[k])
  <2>1. \A k \in DOMAIN call.args : <<call.args[k]>> # <<>>
    BY OneOrTwo
  <2>2. QED
    BY <1>3, <1>4, <2>1 DEF GoodFrag
<1>11. StartOf[one] = <<Event("content_block_start", c,
           ToolUse(call.id, call.name, <<>>))>>
       /\ ArgsOf[one] = <<>>
  BY <1>3 DEF StartOf, ArgsOf, FragEvent
<1> HIDE DEF one, rest
<1>12. /\ Spread(<<one>> \o rest, StartOf)
              = Spread(<<one>>, StartOf) \o Spread(rest, StartOf)
       /\ Spread(<<one>> \o rest, ArgsOf)
              = Spread(<<one>>, ArgsOf) \o Spread(rest, ArgsOf)
  BY <1>5, <1>7, ChunkFunctions, SpreadConcat
<1>13. Spread(<<one>>, StartOf) = StartOf[one] /\ Spread(<<one>>, ArgsOf) = ArgsOf[one]
  BY <1>3, ChunkFunctions, SpreadOne
<1>14. Spread(<<one>> \o rest, ArgsOf) = call.args
  BY <1>1, <1>8, <1>11, <1>12, <1>13, ConcatEmptySeq
<1>15. Spread(<<one>> \o rest, StartOf) = StartOf[one]
  <2>1. Spread(<<one>>, StartOf) \in Seq(StreamEvents)
    BY <1>7, ChunkFunctions, SpreadType
  <2>2. QED
    BY <1>9, <1>12, <1>13, <2>1, ConcatEmptySeq
<1>16. /\ <<one>> \o rest \in Seq(Frags) /\ Len(<<one>> \o rest) = Len(call.args) + 1
       /\ (<<one>> \o rest)[1] = one
       /\ \A k \in 1..Len(call.args) : (<<one>> \o rest)[k + 1] = rest[k]
  <2>1. <<one>> \o rest \in Seq(Frags) /\ Len(<<one>> \o rest) = 1 + Len(call.args)
    BY <1>5, <1>7, ConcatProperties
  <2>2. \A i \in 1..1 + Len(call.args) : (<<one>> \o rest)[i] = IF i <= 1 THEN <<one>>[i]
            ELSE rest[i - 1]
    BY <1>5, <1>7, ConcatProperties
  <2>3. \A k \in 1..Len(call.args) : k + 1 \in 1..1 + Len(call.args) /\ ~(k + 1 <= 1)
            /\ (k + 1) - 1 = k
    BY <1>2
  <2>4. 1 \in 1..1 + Len(call.args)
    BY <1>2
  <2>5. QED
    BY <1>2, <2>1, <2>2, <2>3, <2>4
<1>17. \A k \in DOMAIN (<<one>> \o rest) :
          (<<one>> \o rest)[k].index = c /\ GoodFrag((<<one>> \o rest)[k])
  <2>1. ASSUME NEW k \in DOMAIN (<<one>> \o rest)
        PROVE  (<<one>> \o rest)[k].index = c /\ GoodFrag((<<one>> \o rest)[k])
    <3>1. k \in 1..Len(call.args) + 1
      BY <1>16, LenProperties
    <3>2. k = 1 \/ (k - 1 \in 1..Len(call.args) /\ (k - 1) + 1 = k)
      BY <1>2, <3>1
    <3>3. (<<one>> \o rest)[k] = one
              \/ \E l \in DOMAIN call.args : (<<one>> \o rest)[k] = rest[l]
      BY <1>2, <1>16, <3>2
    <3>4. QED
      BY <1>3, <1>4, <1>10, <3>3
  <2>2. QED
    BY <2>1
<1>18. QED
  BY <1>2, <1>6, <1>11, <1>14, <1>15, <1>16, <1>17 DEF one, rest

(* A reading of the events of chunks, with a tail that says nothing.       *)
LEMMA ReadThrough ==
    ASSUME NEW D, NEW g \in Makers(StreamEvents, D), NEW h \in Makers(Chunks, D),
           NEW sent \in Seq(Chunks), NEW tail \in Seq(StreamEvents),
           \A i \in DOMAIN sent : h[sent[i]] = Spread(Told[sent[i]], g),
           \A i \in DOMAIN tail : g[tail[i]] = <<>>
    PROVE  Spread(Spread(sent, Told) \o tail, g) = Spread(sent, h)
<1>1. Spread(sent, Told) \in Seq(StreamEvents)
  BY ToldIs, SpreadType
<1>2. Spread(Spread(sent, Told) \o tail, g)
          = Spread(Spread(sent, Told), g) \o Spread(tail, g)
  BY <1>1, SpreadConcat
<1>3. Spread(tail, g) = <<>>
  BY SpreadEmpty
<1>4. Spread(Spread(sent, Told), g) = Spread(sent, h)
  BY ToldIs, SpreadTwice
<1>5. Spread(sent, h) \in Seq(D)
  BY SpreadType
<1>6. QED
  BY <1>2, <1>3, <1>4, <1>5, ConcatEmptySeq

(* All pieces of a reply, in whatever order they came.                     *)
GoodReply(r) == /\ r.text \in Words /\ r.calls \in Seq(WireCalls)
             /\ \A c \in DOMAIN r.calls : NamedCall(r.calls[c])
AllPieces(sent, n) ==
    /\ sent \in Seq(Chunks)
    /\ \A i \in DOMAIN sent : Piece(sent[i])
           /\ \A k \in DOMAIN sent[i].calls : sent[i].calls[k].index \in 1..n
Whole(sent, r) ==
    /\ AllPieces(sent, Len(r.calls))
    /\ Spread(sent, SaidIn) = r.text
    /\ \A c \in 1..Len(r.calls) : Spread(sent, FragsOf(c)) = Fragments(c, r.calls[c])
EndOf(reason) == <<MessageDelta(reason), MessageDelta("")>>
Passed(call) == IF Parses(call.args) THEN call.args ELSE <<>>

(* The end of an answer has neither text nor calls.                        *)
LEMMA TailSilent ==
    ASSUME NEW reason \in Strings
    PROVE  /\ EndOf(reason) \in Seq(StreamEvents)
           /\ \A i \in DOMAIN EndOf(reason) :
                 /\ TextOfEvent[EndOf(reason)[i]] = <<>>
                        /\ BegunBy[EndOf(reason)[i]] = <<>>
                 /\ \A c : BegunAt(c)[EndOf(reason)[i]] = <<>>
                        /\ DeltaAt(c)[EndOf(reason)[i]] = <<>>
<1>1. ASSUME NEW r \in Strings
      PROVE  /\ MessageDelta(r) \in StreamEvents
             /\ TextOfEvent[MessageDelta(r)] = <<>> /\ BegunBy[MessageDelta(r)] = <<>>
             /\ \A c : BegunAt(c)[MessageDelta(r)] = <<>>
                    /\ DeltaAt(c)[MessageDelta(r)] = <<>>
  <2>1. MessageDelta(r) \in StreamEvents
    BY EventTypes
  <2>2. MessageDelta(r).event = "message_delta" /\ MessageDelta(r).block.type = "none"
    BY DEF MessageDelta, Event, NoBlock, Block
  <2>3. QED
    BY <2>1, <2>2 DEF TextOfEvent, BegunBy, BegunAt, DeltaAt
<1>2. "" \in Strings
  BY StringsAre
<1> DEFINE a == MessageDelta(reason)
           b == MessageDelta("")
<1>3. a \in StreamEvents /\ b \in StreamEvents
  BY <1>1, <1>2
<1>4. <<a, b>> \in Seq(StreamEvents) /\ \A i \in DOMAIN <<a, b>> : <<a, b>>[i] = a
          \/ <<a, b>>[i] = b
  <2> HIDE DEF a, b
  <2>1. QED
    BY <1>3
<1>5. EndOf(reason) = <<a, b>>
  BY DEF EndOf
<1> HIDE DEF a, b
<1>6. \A i \in DOMAIN EndOf(reason) : EndOf(reason)[i] = a \/ EndOf(reason)[i] = b
  BY <1>4, <1>5
<1>7. QED
  BY <1>1, <1>2, <1>4, <1>5, <1>6 DEF a, b

(* What is read out of a whole answer is the reply.                        *)
LEMMA WholeRead ==
    ASSUME NEW r, GoodReply(r), NEW sent, Whole(sent, r), NEW reason \in Strings
    PROVE  LET evs == Spread(sent, Told) \o EndOf(reason)
           IN  /\ evs \in Seq(StreamEvents)
               /\ Said(evs) = r.text
               /\ \A c \in 1..Len(r.calls) :
                     Use(evs, c) = ToolUse(r.calls[c].id, r.calls[c].name,
                         Passed(r.calls[c]))
               /\ {Begun(evs)[i].index : i \in DOMAIN Begun(evs)} = 1..Len(r.calls)
<1> DEFINE evs == Spread(sent, Told) \o EndOf(reason)
           n == Len(r.calls)
<1>1. /\ sent \in Seq(Chunks)
             /\ (\A i \in DOMAIN sent : Piece(sent[i]) /\ sent[i] \in Chunks)
      /\ EndOf(reason) \in Seq(StreamEvents)
      /\ n \in Nat /\ DOMAIN r.calls = 1..n
  BY TailSilent, LenProperties DEF Whole, AllPieces, Piece, GoodReply
<1>2. evs \in Seq(StreamEvents)
  BY <1>1, ToldIs, SpreadType, ConcatProperties
<1>3. Said(evs) = r.text
  <2>1. \A i \in DOMAIN sent : SaidIn[sent[i]] = Spread(Told[sent[i]], TextOfEvent)
    BY <1>1, PieceReads
  <2>2. \A i \in DOMAIN EndOf(reason) : TextOfEvent[EndOf(reason)[i]] = <<>>
    BY TailSilent
  <2>3. Spread(Spread(sent, Told) \o EndOf(reason), TextOfEvent) = Spread(sent, SaidIn)
    BY <1>1, <2>1, <2>2, EventFunctions, ChunkFunctions, ReadThrough
  <2>4. QED
    BY <1>2, <2>3, SaidIs DEF Whole
<1>4. ASSUME NEW c \in 1..n
      PROVE  /\ Spread(evs, BegunAt(c)) =
                   <<Event("content_block_start", c,
                       ToolUse(r.calls[c].id, r.calls[c].name, <<>>))>>
             /\ Spread(evs, DeltaAt(c)) = r.calls[c].args
  <2> DEFINE start == [x \in Chunks |-> Spread(FragsOf(c)[x], StartOf)]
             args == [x \in Chunks |-> Spread(FragsOf(c)[x], ArgsOf)]
  <2>1. \A x \in Chunks : FragsOf(c)[x] \in Seq(Frags)
    BY ChunkFunctions DEF Makers
  <2>2. start \in Makers(Chunks, StreamEvents)
    <3>1. \A x \in Chunks : Spread(FragsOf(c)[x], StartOf) \in Seq(StreamEvents)
      BY <2>1, ChunkFunctions, SpreadType
    <3>2. QED
      BY <3>1 DEF Makers
  <2>3. args \in Makers(Chunks, Strings)
    <3>1. \A x \in Chunks : Spread(FragsOf(c)[x], ArgsOf) \in Seq(Strings)
      BY <2>1, ChunkFunctions, SpreadType
    <3>2. QED
      BY <3>1 DEF Makers
  <2>4. \A i \in DOMAIN sent : /\ start[sent[i]] = Spread(FragsOf(c)[sent[i]], StartOf)
                               /\ args[sent[i]] = Spread(FragsOf(c)[sent[i]], ArgsOf)
    BY <1>1
  <2>5. \A i \in DOMAIN sent : /\ start[sent[i]] = Spread(Told[sent[i]], BegunAt(c))
                               /\ args[sent[i]] = Spread(Told[sent[i]], DeltaAt(c))
    BY <1>1, <2>4, PieceReads
  <2>6. \A i \in DOMAIN EndOf(reason) : BegunAt(c)[EndOf(reason)[i]] = <<>>
            /\ DeltaAt(c)[EndOf(reason)[i]] = <<>>
    BY TailSilent
  <2> HIDE DEF start, args
  <2>7. Spread(Spread(sent, Told) \o EndOf(reason), BegunAt(c)) = Spread(sent, start)
    BY <1>1, <2>2, <2>5, <2>6, EventFunctions, ReadThrough
  <2>8. Spread(Spread(sent, Told) \o EndOf(reason), DeltaAt(c)) = Spread(sent, args)
    BY <1>1, <2>3, <2>5, <2>6, EventFunctions, ReadThrough
  <2>9. Spread(Spread(sent, FragsOf(c)), StartOf) = Spread(sent, start)
    BY <1>1, <2>2, <2>4, ChunkFunctions, SpreadTwice
  <2>10. Spread(Spread(sent, FragsOf(c)), ArgsOf) = Spread(sent, args)
    BY <1>1, <2>3, <2>4, ChunkFunctions, SpreadTwice
  <2>11. Spread(sent, FragsOf(c)) = Fragments(c, r.calls[c]) /\ NamedCall(r.calls[c])
             /\ c \in Nat
    BY <1>1 DEF Whole, GoodReply
  <2>12. /\ Spread(Fragments(c, r.calls[c]), ArgsOf) = r.calls[c].args
         /\ Spread(Fragments(c, r.calls[c]), StartOf) =
               <<Event("content_block_start", c,
                   ToolUse(r.calls[c].id, r.calls[c].name, <<>>))>>
    BY <2>11, FragmentsAre
  <2>13. QED
    BY <2>7, <2>8, <2>9, <2>10, <2>11, <2>12
<1> HIDE DEF evs
<1>5. ASSUME NEW c \in 1..n
      PROVE  Use(evs, c) = ToolUse(r.calls[c].id, r.calls[c].name, Passed(r.calls[c]))
  <2> DEFINE e == Event("content_block_start", c,
                     ToolUse(r.calls[c].id, r.calls[c].name, <<>>))
  <2>1. Beginning(evs, c) = <<e>>[1].block
    BY <1>2, <1>4, BeginningIs
  <2>2. e.block.id = r.calls[c].id /\ e.block.name = r.calls[c].name
    BY DEF Event, ToolUse, Block
  <2>3. Beginning(evs, c) = e.block
    BY <2>1
  <2>4. Input(evs, c) = r.calls[c].args
    BY <1>2, <1>4, InputIs
  <2> HIDE DEF e
  <2>5. QED
    BY <2>2, <2>3, <2>4 DEF Use, Passed
<1>6. ASSUME NEW i \in DOMAIN Begun(evs) PROVE Begun(evs)[i].index \in 1..n
  <2>1. Begun(evs) = Spread(evs, BegunBy)
    BY <1>2, BegunIs
  <2>2. PICK j \in DOMAIN evs : \E k \in DOMAIN BegunBy[evs[j]] :
            Begun(evs)[i] = BegunBy[evs[j]][k]
    BY <1>2, <2>1, EventFunctions, SpreadFrom
  <2>3. evs[j] \in StreamEvents
    BY <1>2, LenProperties, ElementOfSeq
  <2>4. Begun(evs)[i] = evs[j] /\ evs[j].event = "content_block_start"
    BY <2>2, <2>3 DEF BegunBy
  <2>5. evs[j].index \in 1..n
    <3> DEFINE body == Spread(sent, Told)
    <3>1. body \in Seq(StreamEvents)
      BY <1>1, ToldIs, SpreadType
    <3>2. j \in 1..Len(body) + Len(EndOf(reason)) /\ evs[j] = IF j <= Len(body)
              THEN body[j] ELSE EndOf(reason)[j - Len(body)]
      <4>1. evs = body \o EndOf(reason)
        BY DEF evs
      <4>2. Len(evs) = Len(body) + Len(EndOf(reason)) /\ DOMAIN evs = 1..Len(evs)
        BY <1>1, <1>2, <3>1, <4>1, ConcatProperties, LenProperties
      <4> HIDE DEF body
      <4>3. QED
        BY <1>1, <3>1, <4>1, <4>2, ConcatProperties
    <3>3. CASE j <= Len(body)
      <4>1. j \in DOMAIN body /\ evs[j] = body[j]
        BY <1>1, <3>1, <3>2, <3>3, LenProperties
      <4>2. PICK l \in DOMAIN sent : \E k \in DOMAIN Told[sent[l]] :
                body[j] = Told[sent[l]][k]
        BY <1>1, <4>1, ToldIs, SpreadFrom
      <4>3. Piece(sent[l])
        BY <1>1
      <4>4. CASE sent[l].calls = <<>>
        <5>1. Told[sent[l]] = <<>>
                  \/ Told[sent[l]] = <<Event("content_block_delta", 0,
                         Text(sent[l].text))>>
          BY <4>3, <4>4, ToldPiece
        <5>2. evs[j] = Event("content_block_delta", 0, Text(sent[l].text))
          BY <4>1, <4>2, <5>1
        <5>3. QED
          BY <2>4, <5>2 DEF Event
      <4>5. CASE \E f \in Frags : sent[l].calls = <<f>>
        <5>1. PICK f \in Frags : sent[l].calls = <<f>>
          BY <4>5
        <5>2. Told[sent[l]] = <<FragEvent(f)>>
          BY <4>3, <5>1, ToldPiece
        <5>3. evs[j] = FragEvent(f)
          BY <4>1, <4>2, <5>2
        <5>4. f.index \in 1..n
          <6>1. 1 \in DOMAIN sent[l].calls /\ sent[l].calls[1] = f
            BY <5>1
          <6>2. QED
            BY <6>1 DEF Whole, AllPieces
        <5>5. QED
          BY <5>3, <5>4 DEF FragEvent, Event
      <4>6. QED
        BY <4>3, <4>4, <4>5 DEF Piece
    <3>4. CASE ~(j <= Len(body))
      <4>1. j - Len(body) \in DOMAIN EndOf(reason)
                /\ evs[j] = EndOf(reason)[j - Len(body)]
        <5>1. Len(body) \in Nat /\ Len(EndOf(reason)) \in Nat
                  /\ DOMAIN EndOf(reason) = 1..Len(EndOf(reason))
          BY <1>1, <3>1, LenProperties
        <5> HIDE DEF body
        <5>2. QED
          BY <3>2, <3>4, <5>1
      <4>2. BegunBy[evs[j]] = <<>>
        BY <4>1, TailSilent
      <4>3. QED
        BY <2>2, <4>2
    <3>5. QED
      BY <3>3, <3>4
  <2>6. QED
    BY <2>4, <2>5
<1>7. ASSUME NEW c \in 1..n PROVE \E i \in DOMAIN Begun(evs) : Begun(evs)[i].index = c
  <2> SUFFICES ASSUME \A i \in DOMAIN Begun(evs) : Begun(evs)[i].index # c PROVE FALSE
    OBVIOUS
  <2>1. Begun(evs) = Spread(evs, BegunBy) /\ Begun(evs) \in Seq(StreamEvents)
    BY <1>2, BegunIs
  <2>2. PICK j \in DOMAIN evs : 1 \in DOMAIN BegunAt(c)[evs[j]]
    <3>1. Spread(evs, BegunAt(c)) # <<>>
      BY <1>4, OneOrTwo
    <3>2. \E j \in DOMAIN evs : BegunAt(c)[evs[j]] # <<>>
      BY <1>2, <3>1, EventFunctions, SpreadEmpty
    <3>3. PICK j \in DOMAIN evs : BegunAt(c)[evs[j]] # <<>>
      BY <3>2
    <3>4. evs[j] \in StreamEvents
      BY <1>2, LenProperties, ElementOfSeq
    <3>5. BegunAt(c)[evs[j]] = <<evs[j]>>
      BY <3>3, <3>4 DEF BegunAt
    <3>6. QED
      BY <3>5
  <2>3. evs[j] \in StreamEvents
    BY <1>2, LenProperties, ElementOfSeq
  <2>4. evs[j].event = "content_block_start" /\ evs[j].index = c
    BY <2>2, <2>3 DEF BegunAt
  <2>5. BegunBy[evs[j]] = <<evs[j]>> /\ 1 \in DOMAIN BegunBy[evs[j]]
    BY <2>3, <2>4 DEF BegunBy
  <2>6. \E i \in DOMAIN Spread(evs, BegunBy) :
            Spread(evs, BegunBy)[i] = BegunBy[evs[j]][1]
    BY <1>2, <2>5, EventFunctions, SpreadTo
  <2>7. QED
    BY <2>1, <2>4, <2>5, <2>6
<1>8. {Begun(evs)[i].index : i \in DOMAIN Begun(evs)} = 1..n
  BY <1>6, <1>7
<1>9. QED
  BY <1>2, <1>3, <1>5, <1>8 DEF evs

-----------------------------------------------------------------------------
(* The blocks of a turn by their types.                                    *)
LEMMA OfConcat ==
    ASSUME NEW type, NEW s \in Seq(Blocks), NEW t \in Seq(Blocks)
    PROVE  Of(type, s \o t) = Of(type, s) \o Of(type, t) /\ s \o t \in Seq(Blocks)
<1>1. s \o t \in Seq(Blocks)
  BY ConcatProperties
<1>2. OfType(type) \in Makers(Blocks, Blocks)
  BY <1>1, OfTypeIs
<1>3. Spread(s \o t, OfType(type)) = Spread(s, OfType(type)) \o Spread(t, OfType(type))
  BY <1>2, SpreadConcat
<1>4. QED
  BY <1>1, <1>3, OfTypeIs

(* Blocks of one type are all there are of it, and none of another.        *)
LEMMA OfUniform ==
    ASSUME NEW type, NEW s \in Seq(Blocks), \A i \in DOMAIN s : s[i].type = type
    PROVE  Of(type, s) = s /\ \A other : other # type => Of(other, s) = <<>>
<1> DEFINE unit == [b \in Blocks |-> <<b>>]
<1>1. \A i \in DOMAIN s : s[i] \in Blocks
  BY LenProperties, ElementOfSeq
<1>2. Of(type, s) = s
  <2>1. unit \in Makers(Blocks, Blocks) /\ \A b \in Blocks : unit[b] = <<b>>
    BY OneOrTwo DEF Makers
  <2>2. \A i \in DOMAIN s : OfType(type)[s[i]] = unit[s[i]]
    BY <1>1 DEF OfType
  <2> HIDE DEF unit
  <2>3. Spread(s, OfType(type)) = Spread(s, unit)
    BY <2>2, SpreadSame
  <2>4. Spread(s, unit) = s
    BY <2>1, SpreadUnit
  <2>5. QED
    BY <2>3, <2>4, OfTypeIs
<1>3. ASSUME NEW other, other # type PROVE Of(other, s) = <<>>
  <2>1. \A i \in DOMAIN s : OfType(other)[s[i]] = <<>>
    BY <1>1, <1>3 DEF OfType
  <2>2. OfType(other) \in Makers(Blocks, Blocks)
    BY OfTypeIs
  <2>3. QED
    BY <2>1, <2>2, OfTypeIs, SpreadEmpty
<1>4. QED
  BY <1>2, <1>3

Spoken(t) == IF t = <<>> THEN <<>> ELSE <<Text(t)>>

(* A text is at most one block.                                            *)
LEMMA SpokenIs ==
    ASSUME NEW t \in Words
    PROVE  /\ Spoken(t) \in Seq(Blocks) /\ Joined(Spoken(t)) = t
           /\ Of("text", Spoken(t)) = Spoken(t)
           /\ \A other : other # "text" => Of(other, Spoken(t)) = <<>>
<1>1. Text(t) \in Blocks /\ Text(t).type = "text" /\ Text(t).text = t
  BY NoIdIsId, StringsAre DEF Text, Block, Blocks
<1>2. Spoken(t) \in Seq(Blocks) /\ \A i \in DOMAIN Spoken(t) : Spoken(t)[i] = Text(t)
  BY <1>1, EmptySeq, OneOrTwo DEF Spoken
<1>3. Joined(Spoken(t)) = t
  <2>1. Joined(Spoken(t)) = Spread(Spoken(t), BlockText)
    BY <1>2, JoinedIs
  <2>2. CASE t = <<>>
    BY <2>1, <2>2, SpreadNone DEF Spoken
  <2>3. CASE t # <<>>
    <3>1. Spread(<<Text(t)>>, BlockText) = BlockText[Text(t)]
      BY <1>1, <1>2, JoinedIs, SpreadOne
    <3>2. BlockText[Text(t)] = t
      BY <1>1 DEF BlockText
    <3>3. QED
      BY <2>1, <2>3, <3>1, <3>2 DEF Spoken
  <2>4. QED
    BY <2>2, <2>3
<1>4. \A i \in DOMAIN Spoken(t) : Spoken(t)[i].type = "text"
  BY <1>1, <1>2
<1>5. QED
  BY <1>2, <1>3, <1>4, OfUniform

(* An assistant's turn: a text, if there is one, and calls.                *)
LEMMA SpokenAndUses ==
    ASSUME NEW t \in Words, NEW uses \in Seq(Blocks), \A i \in DOMAIN uses :
               uses[i].type = "tool_use"
    PROVE  LET got == Spoken(t) \o uses
           IN  /\ got \in Seq(Blocks) /\ Of("text", got) = Spoken(t)
                      /\ Joined(Of("text", got)) = t
               /\ Of("tool_use", got) = uses /\ Of("tool_result", got) = <<>>
<1>1. Of("tool_use", uses) = uses /\ Of("text", uses) = <<>>
          /\ Of("tool_result", uses) = <<>>
  BY OfUniform
<1>2. /\ Spoken(t) \in Seq(Blocks) /\ Joined(Spoken(t)) = t
             /\ Of("text", Spoken(t)) = Spoken(t)
      /\ Of("tool_use", Spoken(t)) = <<>> /\ Of("tool_result", Spoken(t)) = <<>>
  BY SpokenIs
<1>3. \A type : Of(type, Spoken(t) \o uses) = Of(type, Spoken(t)) \o Of(type, uses)
                   /\ Spoken(t) \o uses \in Seq(Blocks)
  BY <1>2, OfConcat
<1>4. Spoken(t) \o <<>> = Spoken(t) /\ <<>> \o uses = uses
  BY <1>2, ConcatEmptySeq
<1>5. <<>> \o <<>> = <<>>
  <2>1. <<>> \in Seq({})
    BY EmptySeq
  <2>2. QED
    BY <2>1, ConcatEmptySeq
<1>6. QED
  BY <1>1, <1>2, <1>3, <1>4, <1>5

(* What the agent gathers from a whole answer.                             *)
LEMMA WholeGathered ==
    ASSUME NEW r, GoodReply(r), NEW sent, Whole(sent, r), NEW reason \in Strings
    PROVE  LET got == Gathered(Spread(sent, Told) \o EndOf(reason))
           IN  /\ Joined(Of("text", got)) = r.text
               /\ Of("tool_use", got) =
                     [c \in DOMAIN r.calls |->
                         ToolUse(r.calls[c].id, r.calls[c].name, Passed(r.calls[c]))]
<1> DEFINE evs == Spread(sent, Told) \o EndOf(reason)
           n == Len(r.calls)
           uses == [c \in 1..n |-> ToolUse(r.calls[c].id, r.calls[c].name,
                   Passed(r.calls[c]))]
<1>1. n \in Nat /\ DOMAIN r.calls = 1..n /\ r.text \in Words
  BY LenProperties DEF GoodReply
<1>2. /\ evs \in Seq(StreamEvents) /\ Said(evs) = r.text
      /\ \A c \in 1..n : Use(evs, c)
             = ToolUse(r.calls[c].id, r.calls[c].name, Passed(r.calls[c]))
      /\ {Begun(evs)[i].index : i \in DOMAIN Begun(evs)} = 1..n
  BY WholeRead
<1> HIDE DEF evs
<1>3. Ordered(1..n) = [k \in 1..n |-> k] /\ DOMAIN Ordered(1..n) = 1..n
  BY <1>1, OrderedUpto
<1>4. [k \in DOMAIN Ordered(1..n) |-> Use(evs, Ordered(1..n)[k])] = uses
  <2>1. \A k \in 1..n : Use(evs, Ordered(1..n)[k])
            = ToolUse(r.calls[k].id, r.calls[k].name, Passed(r.calls[k]))
    BY <1>2, <1>3
  <2>2. QED
    BY <1>3, <2>1
<1>5. Gathered(evs) = Spoken(r.text) \o uses
  <2> HIDE DEF uses
  <2>1. QED
    BY <1>2, <1>4, GatheredIs DEF Spoken
<1>6. uses \in Seq(Blocks) /\ \A i \in DOMAIN uses : uses[i].type = "tool_use"
  <2>1. ASSUME NEW c \in 1..n PROVE uses[c] \in Blocks /\ uses[c].type = "tool_use"
    <3>1. r.calls[c].id \in Ids /\ r.calls[c].name \in Strings
              /\ r.calls[c].args \in Words
      BY <1>1 DEF GoodReply, NamedCall, WireCalls
    <3>2. Passed(r.calls[c]) \in Words
      BY <3>1, NoIdIsId DEF Passed
    <3>3. QED
      BY <3>1, <3>2, StringsAre DEF ToolUse, Block, Blocks
  <2>2. uses = [c \in 1..n |-> uses[c]]
    OBVIOUS
  <2> HIDE DEF uses
  <2>3. uses \in Seq(Blocks)
    BY <1>1, <2>1, <2>2, IsSequence
  <2>4. QED
    BY <2>1, <2>2, <2>3
<1> HIDE DEF uses
<1>7. Joined(Of("text", Gathered(evs))) = r.text /\ Of("tool_use", Gathered(evs)) = uses
  BY <1>1, <1>5, <1>6, SpokenAndUses
<1>8. QED
  BY <1>1, <1>7 DEF evs, uses

-----------------------------------------------------------------------------
(* The accumulator of tool calls, one fragment after another.              *)
AllSlots == UNION {[D -> WireCalls] : D \in SUBSET Nat}
Feeds(run, s) ==
    /\ run[0] = <<>> /\ run[Len(s)] = FoldLeft(Feed, <<>>, s)
    /\ \A i \in 1..Len(s) : run[i] = Feed(run[i - 1], s[i])

(* What the accumulator makes of a fragment.                               *)
LEMMA FeedType ==
    ASSUME NEW slots \in AllSlots, NEW f \in Frags
    PROVE  /\ Feed(slots, f) \in AllSlots
                  /\ DOMAIN Feed(slots, f) = DOMAIN slots \cup {f.index}
           /\ \A c \in DOMAIN slots : c # f.index => Feed(slots, f)[c] = slots[c]
           /\ f.index \in DOMAIN slots =>
                 Feed(slots, f)[f.index] =
                    [id   |-> IF f.id # NoId THEN f.id ELSE slots[f.index].id,
                     name |-> IF f.name # NoName THEN f.name ELSE slots[f.index].name,
                     args |-> slots[f.index].args \o f.args]
           /\ f.index \notin DOMAIN slots =>
                 Feed(slots, f)[f.index] =
                    [id |-> IF f.id # NoId THEN f.id ELSE NoId,
                     name |-> IF f.name # NoName THEN f.name ELSE NoName,
                     args |-> <<>> \o f.args]
<1>1. PICK D \in SUBSET Nat : slots \in [D -> WireCalls]
  BY DEF AllSlots
<1>2. f.index \in Nat /\ f.id \in Ids /\ f.name \in Strings /\ f.args \in Words
  BY DEF Frags
<1> DEFINE slot == IF f.index \in DOMAIN slots THEN slots[f.index]
                   ELSE [id |-> NoId, name |-> NoName, args |-> <<>>]
           new == [id   |-> IF f.id # NoId THEN f.id ELSE slot.id,
                   name |-> IF f.name # NoName THEN f.name ELSE slot.name,
                   args |-> slot.args \o f.args]
<1>3. Feed(slots, f) = [c \in D \cup {f.index} |-> IF c = f.index THEN new ELSE slots[c]]
  BY <1>1 DEF Feed
<1>4. slot.id \in Ids /\ slot.name \in Strings /\ slot.args \in Words
  BY <1>1, NoIdIsId, StringsAre DEF WireCalls
<1>5. slot.args \o f.args \in Words
  BY <1>2, <1>4, ConcatProperties DEF Words
<1>6. new \in WireCalls
  BY <1>2, <1>4, <1>5 DEF WireCalls
<1>7. new = IF f.index \in D
            THEN [id   |-> IF f.id # NoId THEN f.id ELSE slots[f.index].id,
                     name |-> IF f.name # NoName THEN f.name ELSE slots[f.index].name,
                     args |-> slots[f.index].args \o f.args]
            ELSE [id |-> IF f.id # NoId THEN f.id ELSE NoId,
                     name |-> IF f.name # NoName THEN f.name ELSE NoName,
                     args |-> <<>> \o f.args]
  BY <1>1
<1> HIDE DEF new, slot
<1>8. Feed(slots, f) \in [D \cup {f.index} -> WireCalls]
  BY <1>1, <1>3, <1>6
<1>9. Feed(slots, f) \in AllSlots
  BY <1>2, <1>8 DEF AllSlots
<1>10. QED
  BY <1>1, <1>3, <1>7, <1>8, <1>9

(* The run behind the accumulator.                                         *)
LEMMA FeedRun ==
    ASSUME NEW s \in Seq(Frags)
    PROVE  Len(s) \in Nat /\ \E run \in [0..Len(s) -> AllSlots] : Feeds(run, s)
<1> DEFINE n == Len(s)
           step == [p \in (1..n) \X AllSlots |-> Feed(p[2], s[p[1]])]
           Body(it) == [S \in SUBSET (1..n) |->
                           IF S = {} THEN <<>> ELSE Feed(it[S \ {Max(S)}], s[Max(S)])]
<1>1. n \in Nat /\ DOMAIN s = 1..n /\ \A i \in 1..n : s[i] \in Frags
  BY LenProperties, ElementOfSeq
<1> HIDE DEF n
<1>2. <<>> \in AllSlots
  <2>1. <<>> \in [{} -> WireCalls]
    OBVIOUS
  <2>2. QED
    BY <2>1 DEF AllSlots
<1>3. step \in [(1..n) \X AllSlots -> AllSlots]
  BY <1>1, FeedType
<1>4. ASSUME NEW S \in SUBSET (1..n), S # {} PROVE Max(S) \in S
  <2>1. S \in SUBSET (0..n)
    OBVIOUS
  <2>2. QED
    BY <1>1, <1>4, <2>1, GreatestOf
<1>5. \E it : it = Body(it)
  <2>1. PICK it \in [SUBSET (1..n) -> AllSlots] : IsFold(it, n, <<>>, step)
    <3> HIDE DEF step
    <3>1. QED
      BY <1>1, <1>2, <1>3, FoldExists
  <2>2. ASSUME NEW S \in SUBSET (1..n)
        PROVE  it[S] = IF S = {} THEN <<>> ELSE Feed(it[S \ {Max(S)}], s[Max(S)])
    <3>1. CASE S = {}
      BY <2>1, <3>1 DEF IsFold
    <3>2. CASE S # {}
      <4>1. Max(S) \in 1..n /\ S \ {Max(S)} \in SUBSET (1..n)
        BY <1>4, <3>2
      <4>2. it[S \ {Max(S)}] \in AllSlots
        BY <4>1
      <4>3. it[S] = step[<<Max(S), it[S \ {Max(S)}]>>]
        BY <2>1, <3>2 DEF IsFold
      <4>4. QED
        BY <3>2, <4>1, <4>2, <4>3
    <3>3. QED
      BY <3>1, <3>2
  <2>3. it = Body(it)
    BY <2>2
  <2>4. QED
    BY <2>3
<1> DEFINE it == CHOOSE it : it = Body(it)
<1>6. it = Body(it)
  BY <1>5
<1>7. FoldLeft(Feed, <<>>, s) = it[1..n]
  BY <1>1 DEF FoldLeft, MapThenFoldSet
<1> HIDE DEF it
<1> DEFINE run == [i \in 0..n |-> it[1..i]]
<1>8. it[{}] = <<>> /\ \A i \in 1..n : it[1..i] = Feed(it[1..i - 1], s[i])
  <2>1. \A S \in SUBSET (1..n) : it[S] = IF S = {} THEN <<>>
            ELSE Feed(it[S \ {Max(S)}], s[Max(S)])
    BY <1>6
  <2>2. it[{}] = <<>>
    BY <2>1
  <2>3. ASSUME NEW i \in 1..n PROVE it[1..i] = Feed(it[1..i - 1], s[i])
    <3>1. 1..i \in SUBSET (1..n) /\ 1..i # {} /\ Max(1..i) = i /\ (1..i) \ {i} = 1..i - 1
      BY <1>1, FoldIsRun
    <3>2. QED
      BY <2>1, <3>1
  <2>4. QED
    BY <2>2, <2>3
<1>9. run[0] = <<>> /\ run[n] = FoldLeft(Feed, <<>>, s)
          /\ \A i \in 1..n : run[i] = Feed(run[i - 1], s[i])
  <2>1. 1..0 = {} /\ 0 \in 0..n /\ n \in 0..n /\ \A i \in 1..n : i \in 0..n
            /\ i - 1 \in 0..n
    BY <1>1
  <2>2. QED
    BY <1>7, <1>8, <2>1
<1>10. \A i \in 0..n : run[i] \in AllSlots
  <2>1. ASSUME NEW i \in 1..n, run[i - 1] \in AllSlots PROVE run[i] \in AllSlots
    <3>1. s[i] \in Frags /\ run[i] = Feed(run[i - 1], s[i])
      BY <1>1, <1>9
    <3>2. QED
      BY <2>1, <3>1, FeedType
  <2>2. run[0] \in AllSlots
    BY <1>2, <1>9
  <2> HIDE DEF run
  <2>3. QED
    BY <1>1, <2>1, <2>2, RunWithin
<1>11. run \in [0..n -> AllSlots]
  BY <1>10
<1>12. Feeds(run, s)
  BY <1>9 DEF Feeds, n
<1>13. QED
  BY <1>1, <1>11, <1>12 DEF n

(* It has every call, however their fragments were interleaved,            *)
LEMMA AccumulatedAll ==
    ASSUME NEW r, GoodReply(r), NEW F \in Seq(Frags),
           \A k \in DOMAIN F : F[k].index \in 1..Len(r.calls),
           \A c \in 1..Len(r.calls) : Spread(F, Only(c)) = Fragments(c, r.calls[c])
    PROVE  /\ DOMAIN FoldLeft(Feed, <<>>, F) = 1..Len(r.calls)
           /\ \A c \in 1..Len(r.calls) : FoldLeft(Feed, <<>>, F)[c] = r.calls[c]
<1> DEFINE n == Len(r.calls)
           upto(i) == SubSeq(F, 1, i)
           got(i, c) == Spread(upto(i), Only(c))
<1>1. n \in Nat /\ DOMAIN r.calls = 1..n /\ Len(F) \in Nat /\ DOMAIN F = 1..Len(F)
  BY LenProperties DEF GoodReply
<1>2. PICK run \in [0..Len(F) -> AllSlots] : Feeds(run, F)
  BY FeedRun
<1> DEFINE Fed(i) ==
        /\ DOMAIN run[i] = {c \in 1..n : got(i, c) # <<>>}
        /\ \A c \in DOMAIN run[i] :
              run[i][c] = [id |-> r.calls[c].id, name |-> r.calls[c].name,
                           args |-> Spread(got(i, c), ArgsOf)]
           Wrong == {i \in 0..Len(F) : ~Fed(i)}
<1>3. Fed(0)
  <2>1. upto(0) = <<>>
    BY SubSeqEmpty
  <2>2. \A c : got(0, c) = <<>>
    BY <2>1, SpreadNone
  <2>3. run[0] = <<>>
    BY <1>2 DEF Feeds
  <2>4. QED
    BY <2>2, <2>3
<1>4. ASSUME NEW i \in 1..Len(F), Fed(i - 1) PROVE Fed(i)
  <2> DEFINE f == F[i]
             d == f.index
             q == got(i - 1, d)
             old == run[i - 1]
  <2>1. /\ upto(i - 1) \in Seq(Frags) /\ f \in Frags /\ upto(i) = Append(upto(i - 1), f)
        /\ d \in 1..n /\ i \in DOMAIN F /\ d \in Nat
    BY <1>1, UptoLast
  <2>2. run[i] = Feed(old, f) /\ old \in AllSlots
    BY <1>1, <1>2 DEF Feeds
  <2>3. \A c : got(i, c) = got(i - 1, c) \o Only(c)[f] /\ got(i - 1, c) \in Seq(Frags)
    <3> SUFFICES ASSUME NEW c
                 PROVE  got(i, c) = got(i - 1, c) \o Only(c)[f]
                            /\ got(i - 1, c) \in Seq(Frags)
      OBVIOUS
    <3> HIDE DEF upto, f
    <3>1. Only(c) \in Makers(Frags, Frags)
      BY ChunkFunctions
    <3>2. Spread(Append(upto(i - 1), f), Only(c))
              = Spread(upto(i - 1), Only(c)) \o Only(c)[f]
      BY <2>1, <3>1, SpreadAppend
    <3>3. Spread(upto(i - 1), Only(c)) \in Seq(Frags)
      BY <2>1, <3>1, SpreadType
    <3>4. QED
      BY <2>1, <3>2, <3>3
  <2>4. got(i, d) = q \o <<f>> /\ \A c : c # d => got(i, c) = got(i - 1, c)
    <3>1. \A c : Only(c)[f] = IF c = d THEN <<f>> ELSE <<>>
      BY <2>1 DEF Only
    <3> HIDE DEF got, f
    <3>2. \A c : got(i - 1, c) \in Seq(Frags) => got(i - 1, c) \o <<>> = got(i - 1, c)
      BY ConcatEmptySeq
    <3>3. got(i, d) = got(i - 1, d) \o <<f>>
      BY <2>3, <3>1
    <3>4. ASSUME NEW c, c # d PROVE got(i, c) = got(i - 1, c)
      <4>1. got(i, c) = got(i - 1, c) \o <<>> /\ got(i - 1, c) \in Seq(Frags)
        BY <2>3, <3>1, <3>4
      <4>2. QED
        BY <3>2, <4>1
    <3>5. QED
      BY <3>3, <3>4
  <2>5. f = Fragments(d, r.calls[d])[Len(q) + 1]
            /\ Len(q) + 1 \in DOMAIN Fragments(d, r.calls[d])
    <3> DEFINE rest == SubSeq(F, i + 1, Len(F))
    <3>1. rest \in Seq(Frags)
      <4>1. \A k \in i + 1..Len(F) : F[k] \in Frags
        BY <1>1, ElementOfSeq
      <4>2. i + 1 \in Int /\ Len(F) \in Int
        BY <1>1
      <4>3. QED
        BY <4>1, <4>2, SubSeqProperties
    <3>2. F = upto(i) \o rest
      <4>1. 1 \in 1..Len(F) + 1 /\ i \in 1 - 1..Len(F) /\ Len(F) \in i..Len(F)
        BY <1>1
      <4>2. SubSeq(F, 1, i) \o SubSeq(F, i + 1, Len(F)) = SubSeq(F, 1, Len(F))
        BY <4>1, ConcatAdjacentSubSeq
      <4>3. QED
        BY <4>2, SubSeqFull
    <3>3. upto(i) \in Seq(Frags)
      BY <2>1, AppendProperties
    <3> DEFINE after == Spread(rest, Only(d))
    <3>4. after \in Seq(Frags) /\ q \in Seq(Frags) /\ <<f>> \in Seq(Frags)
              /\ q \o <<f>> \in Seq(Frags)
      <4>1. after \in Seq(Frags)
        BY <3>1, ChunkFunctions, SpreadType
      <4>2. q \in Seq(Frags)
        BY <2>3
      <4>3. <<f>> \in Seq(Frags)
        BY <2>1, OneOrTwo
      <4> HIDE DEF q, f
      <4>4. QED
        BY <4>1, <4>2, <4>3, ConcatProperties
    <3>5. Fragments(d, r.calls[d]) = got(i, d) \o after
      <4> HIDE DEF rest, upto
      <4>1. Spread(upto(i) \o rest, Only(d))
                = Spread(upto(i), Only(d)) \o Spread(rest, Only(d))
        <5>1. Only(d) \in Makers(Frags, Frags)
          BY ChunkFunctions
        <5>2. QED
          BY <3>1, <3>3, <5>1, SpreadConcat
      <4>2. Spread(F, Only(d)) = Fragments(d, r.calls[d])
        BY <2>1
      <4>3. QED
        BY <3>2, <4>1, <4>2
    <3> HIDE DEF after, q, f, got
    <3>6. Fragments(d, r.calls[d]) = (q \o <<f>>) \o after
      BY <2>4, <3>5
    <3>7. Len(q) \in Nat /\ Len(q \o <<f>>) = Len(q) + 1 /\ (q \o <<f>>)[Len(q) + 1] = f
      <4>1. Len(q) \in Nat /\ Len(<<f>>) = 1 /\ <<f>>[1] = f
        BY <3>4, LenProperties, OneOrTwo
      <4>2. Len(q) + 1 \in 1..Len(q) + Len(<<f>>) /\ ~(Len(q) + 1 <= Len(q))
                /\ (Len(q) + 1) - Len(q) = 1
        BY <4>1
      <4>3. QED
        BY <3>4, <4>1, <4>2, ConcatProperties
    <3>8. ((q \o <<f>>) \o after)[Len(q) + 1] = (q \o <<f>>)[Len(q) + 1]
          /\ Len(q) + 1 \in DOMAIN ((q \o <<f>>) \o after)
      <4> DEFINE u == q \o <<f>>
      <4>1. u \in Seq(Frags) /\ Len(u) = Len(q) + 1 /\ Len(after) \in Nat
        BY <3>4, <3>7, LenProperties
      <4> HIDE DEF u
      <4>2. u \o after \in Seq(Frags) /\ Len(u \o after) = Len(u) + Len(after)
        BY <3>4, <4>1, ConcatProperties
      <4>3. Len(q) + 1 \in 1..Len(u) + Len(after) /\ Len(q) + 1 <= Len(u)
        BY <3>7, <4>1
      <4>4. (u \o after)[Len(q) + 1] = u[Len(q) + 1]
        BY <3>4, <4>1, <4>3, ConcatProperties
      <4>5. DOMAIN (u \o after) = 1..Len(u) + Len(after)
        BY <4>2, LenProperties
      <4>6. QED
        BY <4>3, <4>4, <4>5 DEF u
    <3>9. QED
      BY <3>6, <3>7, <3>8
  <2>6. NamedCall(r.calls[d])
    BY <1>1, <2>1 DEF GoodReply
  <2>7. Spread(q \o <<f>>, ArgsOf) = Spread(q, ArgsOf) \o f.args
    <3>1. q \in Seq(Frags) /\ Append(q, f) = q \o <<f>> /\ ArgsOf[f] = f.args
      <4>1. q \in Seq(Frags) /\ ArgsOf[f] = f.args
        BY <2>1, <2>3 DEF ArgsOf
      <4> HIDE DEF q, f
      <4>2. QED
        BY <2>1, <4>1, AppendIsConcat
    <3> HIDE DEF q, f
    <3>2. Spread(Append(q, f), ArgsOf) = Spread(q, ArgsOf) \o ArgsOf[f]
      BY <2>1, <3>1, ChunkFunctions, SpreadAppend
    <3>3. QED
      BY <3>1, <3>2
  <2>8. got(i, d) # <<>>
    <3>1. q \in Seq(Frags) /\ <<f>> \in Seq(Frags) /\ <<f>> # <<>>
      BY <2>1, <2>3, OneOrTwo
    <3> HIDE DEF q, f, got
    <3>2. QED
      BY <2>4, <3>1, ConcatEqualIffEmpty
  <2>9. d \in DOMAIN old <=> q # <<>>
    BY <1>4, <2>1
  <2>10. \A c \in DOMAIN old :
            old[c] = [id |-> r.calls[c].id, name |-> r.calls[c].name,
                args |-> Spread(got(i - 1, c), ArgsOf)]
    BY <1>4
  <2>11. DOMAIN old = {c \in 1..n : got(i - 1, c) # <<>>}
    BY <1>4
  <2> HIDE DEF got, q, f, old
  <2>12. /\ Fragments(d, r.calls[d])[1]
                = Fragment(d, r.calls[d].id, r.calls[d].name, <<>>)
         /\ Len(Fragments(d, r.calls[d])) = Len(r.calls[d].args) + 1
         /\ DOMAIN Fragments(d, r.calls[d]) = 1..Len(r.calls[d].args) + 1
         /\ \A k \in 1..Len(r.calls[d].args) :
               Fragments(d, r.calls[d])[k + 1]
                   = Fragment(d, NoId, NoName, <<r.calls[d].args[k]>>)
    <3>1. /\ Fragments(d, r.calls[d]) \in Seq(Frags)
          /\ Fragments(d, r.calls[d])[1]
                 = Fragment(d, r.calls[d].id, r.calls[d].name, <<>>)
          /\ Len(Fragments(d, r.calls[d])) = Len(r.calls[d].args) + 1
          /\ \A k \in 1..Len(r.calls[d].args) :
                Fragments(d, r.calls[d])[k + 1]
                    = Fragment(d, NoId, NoName, <<r.calls[d].args[k]>>)
      BY <2>1, <2>6, FragmentsAre
    <3>2. DOMAIN Fragments(d, r.calls[d]) = 1..Len(Fragments(d, r.calls[d]))
      BY <3>1, LenProperties
    <3>3. QED
      BY <3>1, <3>2
  <2>13. run[i][d] = [id |-> r.calls[d].id, name |-> r.calls[d].name,
             args |-> Spread(got(i, d), ArgsOf)]
    <3>1. CASE q = <<>>
      <4>1. Len(q) = 0 /\ f = Fragment(d, r.calls[d].id, r.calls[d].name, <<>>)
        BY <2>5, <2>12, <3>1
      <4>2. f.id = r.calls[d].id /\ f.name = r.calls[d].name /\ f.args = <<>>
        BY <4>1 DEF Fragment
      <4>3. <<>> \o <<>> = <<>>
        BY EmptySeq, ConcatEmptySeq
      <4>4. Spread(got(i, d), ArgsOf) = <<>>
        BY <2>4, <2>7, <3>1, <4>2, <4>3, SpreadNone
      <4>5. Feed(old, f)[d] =
               [id |-> IF f.id # NoId THEN f.id ELSE NoId,
                name |-> IF f.name # NoName THEN f.name
                    ELSE NoName, args |-> <<>> \o f.args]
        BY <2>1, <2>2, <2>9, <3>1, FeedType
      <4>6. QED
        BY <2>2, <4>2, <4>3, <4>4, <4>5
    <3>2. CASE q # <<>>
      <4>1. Len(q) \in 1..Len(r.calls[d].args)
        <5>1. q \in Seq(Frags)
          BY <2>3 DEF q
        <5>2. Len(q) \in Nat \ {0} /\ Len(q) + 1 \in 1..Len(r.calls[d].args) + 1
          BY <2>5, <2>12, <3>2, <5>1, EmptySeq
        <5>3. Len(r.calls[d].args) \in Nat
          BY <2>6, LenProperties DEF NamedCall, WireCalls, Words
        <5>4. QED
          BY <5>2, <5>3
      <4>2. f = Fragment(d, NoId, NoName, <<r.calls[d].args[Len(q)]>>)
        BY <2>5, <2>12, <4>1
      <4>3. f.id = NoId /\ f.name = NoName
        BY <4>2 DEF Fragment
      <4>4. old[d] = [id |-> r.calls[d].id, name |-> r.calls[d].name,
                args |-> Spread(q, ArgsOf)]
        BY <2>9, <2>10, <3>2 DEF q
      <4>5. Feed(old, f)[d] =
               [id |-> IF f.id # NoId THEN f.id ELSE old[d].id,
                name |-> IF f.name # NoName THEN f.name
                    ELSE old[d].name, args |-> old[d].args \o f.args]
        BY <2>1, <2>2, <2>9, <3>2, FeedType
      <4>6. Feed(old, f)[d] = [id |-> r.calls[d].id, name |-> r.calls[d].name,
                args |-> Spread(q, ArgsOf) \o f.args]
        BY <4>3, <4>4, <4>5
      <4>7. QED
        BY <2>2, <2>4, <2>7, <4>6
    <3>3. QED
      BY <3>1, <3>2
  <2>14. DOMAIN run[i] = DOMAIN old \cup {d} /\ \A c \in DOMAIN old : c # d
             => run[i][c] = old[c]
    <3>1. /\ DOMAIN Feed(old, f) = DOMAIN old \cup {f.index}
          /\ \A c \in DOMAIN old : c # f.index => Feed(old, f)[c] = old[c]
      BY <2>1, <2>2, FeedType
    <3>2. QED
      BY <2>2, <3>1
  <2>15. DOMAIN run[i] = {c \in 1..n : got(i, c) # <<>>}
    BY <2>1, <2>4, <2>8, <2>11, <2>14
  <2>16. ASSUME NEW c \in DOMAIN run[i]
         PROVE  run[i][c] = [id |-> r.calls[c].id, name |-> r.calls[c].name,
                    args |-> Spread(got(i, c), ArgsOf)]
    <3>1. CASE c = d
      BY <2>13, <3>1
    <3>2. CASE c # d
      BY <2>4, <2>10, <2>14, <3>2
    <3>3. QED
      BY <3>1, <3>2
  <2>17. QED
    BY <2>15, <2>16
<1>5. Wrong = {}
  <2> HIDE DEF Fed
  <2>1. Wrong \in SUBSET (0..Len(F)) /\ 0 \notin Wrong
    BY <1>3
  <2>2. \A i \in 1..Len(F) : i - 1 \notin Wrong => i \notin Wrong
    BY <1>1, <1>4
  <2> HIDE DEF Wrong
  <2>3. QED
    BY <1>1, <2>1, <2>2, NeverWrong
<1>6. Fed(Len(F))
  <2> HIDE DEF Fed
  <2>1. Len(F) \in 0..Len(F)
    BY <1>1
  <2>2. QED
    BY <1>5, <2>1
<1>7. ASSUME NEW c \in 1..n
      PROVE  /\ got(Len(F), c) # <<>>
             /\ [id |-> r.calls[c].id, name |-> r.calls[c].name,
                    args |-> Spread(got(Len(F), c), ArgsOf)] = r.calls[c]
  <2>1. NamedCall(r.calls[c]) /\ c \in Nat
    BY <1>1 DEF GoodReply
  <2>2. got(Len(F), c) = Fragments(c, r.calls[c])
    BY SubSeqFull
  <2>3. Spread(Fragments(c, r.calls[c]), ArgsOf) = r.calls[c].args
            /\ Fragments(c, r.calls[c]) # <<>>
    <3>1. Len(Fragments(c, r.calls[c])) = Len(r.calls[c].args) + 1
              /\ Len(r.calls[c].args) \in Nat
      <4>1. Len(Fragments(c, r.calls[c])) = Len(r.calls[c].args) + 1
        BY <2>1, FragmentsAre
      <4>2. QED
        BY <2>1, <4>1, LenProperties DEF NamedCall, WireCalls, Words
    <3>2. Len(<<>>) = 0
      BY EmptySeq
    <3>3. Spread(Fragments(c, r.calls[c]), ArgsOf) = r.calls[c].args
      BY <2>1, FragmentsAre
    <3>4. QED
      BY <3>1, <3>2, <3>3
  <2>4. r.calls[c] = [id |-> r.calls[c].id, name |-> r.calls[c].name,
            args |-> r.calls[c].args]
    BY <2>1 DEF NamedCall, WireCalls
  <2> HIDE DEF got
  <2>5. QED
    BY <2>2, <2>3, <2>4
<1>8. run[Len(F)] = FoldLeft(Feed, <<>>, F)
  BY <1>2 DEF Feeds
<1>9. QED
  <2> HIDE DEF got
  <2>1. DOMAIN run[Len(F)] = 1..n
    BY <1>6, <1>7
  <2>2. \A c \in 1..n : run[Len(F)][c] = r.calls[c]
    BY <1>6, <1>7, <2>1
  <2>3. QED
    BY <1>8, <2>1, <2>2

(* and gives them in their order.                                          *)
LEMMA AccumulatedIs ==
    ASSUME NEW r, GoodReply(r), NEW cs \in Seq(Chunks), NEW F, F = Spread(cs, CallsIn),
           \A k \in DOMAIN F : F[k].index \in 1..Len(r.calls),
           \A c \in 1..Len(r.calls) : Spread(F, Only(c)) = Fragments(c, r.calls[c])
    PROVE  Accumulated(cs) = r.calls
<1>1. F \in Seq(Frags)
  BY ChunkFunctions, SpreadType
<1>2. FlattenSeq([i \in DOMAIN cs |-> cs[i].calls]) = F
  <2>1. \A i \in DOMAIN cs : cs[i] \in Chunks
    BY LenProperties, ElementOfSeq
  <2>2. [i \in DOMAIN cs |-> cs[i].calls] = [i \in DOMAIN cs |-> CallsIn[cs[i]]]
    BY <2>1 DEF CallsIn
  <2>3. QED
    BY <2>2 DEF Spread
<1> DEFINE n == Len(r.calls)
           slots == FoldLeft(Feed, <<>>, F)
<1>3. n \in Nat /\ r.calls \in Seq(WireCalls) /\ DOMAIN r.calls = 1..n
  BY LenProperties DEF GoodReply
<1>4. DOMAIN slots = 1..n /\ \A c \in 1..n : slots[c] = r.calls[c]
  BY <1>1, AccumulatedAll
<1>5. Accumulated(cs) = [k \in DOMAIN Ordered(DOMAIN slots) |-> slots[Ordered(DOMAIN slots)[k]]]
  BY <1>2 DEF Accumulated
<1> HIDE DEF slots
<1>6. Ordered(1..n) = [k \in 1..n |-> k] /\ DOMAIN Ordered(1..n) = 1..n
  BY <1>3, OrderedUpto
<1>7. Accumulated(cs) = [k \in 1..n |-> r.calls[k]]
  BY <1>4, <1>5, <1>6
<1>8. [k \in 1..n |-> r.calls[k]] = r.calls
  BY <1>3
<1>9. QED
  BY <1>7, <1>8

-----------------------------------------------------------------------------
(* The body of an answer, and what the agent keeps of it.                  *)
LEMMA HeadAndRest ==
    ASSUME NEW S, NEW s \in Seq(S), s # <<>>
    PROVE  s = <<s[1]>> \o SubSeq(s, 2, Len(s)) /\ SubSeq(s, 2, Len(s)) \in Seq(S)
               /\ s[1] \in S
<1>1. Len(s) \in Nat \ {0} /\ \A i \in 1..Len(s) : s[i] \in S
  BY EmptySeq, ElementOfSeq
<1>2. SubSeq(s, 1, Len(s)) = <<s[1]>> \o SubSeq(s, 2, Len(s))
  <2>1. 1 \in 1..Len(s) /\ Len(s) \in 1..Len(s) /\ 1 + 1 = 2
    BY <1>1
  <2>2. QED
    BY <2>1, SubSeqRecursiveFirst
<1>3. SubSeq(s, 2, Len(s)) \in Seq(S)
  <2>1. 2 \in Int /\ Len(s) \in Int /\ \A i \in 2..Len(s) : s[i] \in S
    BY <1>1
  <2>2. QED
    BY <2>1, SubSeqProperties
<1>4. QED
  BY <1>1, <1>2, <1>3, SubSeqFull

Body(cs) == FlattenSeq([i \in DOMAIN cs |-> ChunkToEvents(cs[i], Starts(cs, i))])

(* Only the first chunk begins the message.                                *)
LEMMA BodyIs ==
    ASSUME NEW cs \in Seq(Chunks)
    PROVE  /\ cs = <<>> => Body(cs) = <<>>
           /\ cs # <<>> /\ ~cs[1].usage => Body(cs) = <<MessageStart>> \o Spread(cs, Told)
<1>1. ASSUME cs = <<>> PROVE Body(cs) = <<>>
  <2>1. [i \in DOMAIN cs |-> ChunkToEvents(cs[i], Starts(cs, i))] = <<>>
    BY <1>1
  <2>2. QED
    BY <2>1, FlattenNone DEF Body
<1>2. ASSUME cs # <<>>, ~cs[1].usage PROVE Body(cs) = <<MessageStart>> \o Spread(cs, Told)
  <2> DEFINE n == Len(cs)
             P == [i \in DOMAIN cs |-> ChunkToEvents(cs[i], Starts(cs, i))]
             T == [i \in DOMAIN cs |-> Told[cs[i]]]
  <2>1. n \in Nat \ {0} /\ DOMAIN cs = 1..n /\ \A i \in 1..n : cs[i] \in Chunks
    BY <1>2, EmptySeq, LenProperties, ElementOfSeq
  <2>2. \A i \in 1..n : T[i] = Told[cs[i]] /\ T[i] \in Seq(StreamEvents)
    BY <2>1, ToldIs DEF Makers
  <2>3. \A i \in 2..n : P[i] = T[i]
    <3>1. ASSUME NEW i \in 2..n PROVE P[i] = T[i]
      <4>1. 1 \in 1..i - 1 /\ i \in 1..n
        BY <2>1
      <4>2. Starts(cs, i) = FALSE
        BY <1>2, <4>1 DEF Starts
      <4>3. P[i] = ChunkToEvents(cs[i], FALSE)
        BY <2>1, <4>1, <4>2
      <4>4. Told[cs[i]] = ChunkToEvents(cs[i], FALSE)
        BY <2>1, <4>1 DEF Told
      <4>5. QED
        BY <2>2, <4>1, <4>3, <4>4
    <3>2. QED
      BY <3>1
  <2>4. P[1] = <<MessageStart>> \o T[1]
    <3> DEFINE x == cs[1]
               a == IF x.text # <<>> THEN <<Event("content_block_delta", 0,
                       Text(x.text))>> ELSE <<>>
               b == FlattenSeq([i \in DOMAIN x.calls |-> CallEvents(x.calls[i])])
               c == IF x.finish = "" THEN <<>>
                    ELSE <<MessageDelta(IF x.finish = "tool_calls" THEN "tool_use"
                        ELSE "end_turn")>>
    <3>1. x \in Chunks /\ x.text \in Words /\ x.calls \in Seq(Frags) /\ 1 \in DOMAIN cs
      BY <2>1 DEF Chunks
    <3>2. Starts(cs, 1) = TRUE
      BY <1>2 DEF Starts
    <3>3. P[1] = ((<<MessageStart>> \o a) \o b) \o c
      BY <1>2, <3>1, <3>2 DEF ChunkToEvents
    <3>4. T[1] = ((<<>> \o a) \o b) \o c
      BY <1>2, <3>1 DEF Told, ChunkToEvents
    <3>5. a \in Seq(StreamEvents)
      BY <3>1, EventTypes, EmptySeq, OneOrTwo
    <3>6. b \in Seq(StreamEvents)
      <4>1. \A i \in DOMAIN x.calls : x.calls[i] \in Frags
        BY <3>1, LenProperties, ElementOfSeq
      <4>2. [i \in DOMAIN x.calls |-> CallEvents(x.calls[i])]
                = [i \in DOMAIN x.calls |-> EventsOf[x.calls[i]]]
        BY <4>1 DEF EventsOf
      <4>3. b = Spread(x.calls, EventsOf)
        BY <4>2 DEF Spread
      <4> HIDE DEF b
      <4>4. QED
        BY <3>1, <4>3, EventsOfType, SpreadType
    <3>7. c \in Seq(StreamEvents)
      <4>1. (IF x.finish = "tool_calls" THEN "tool_use" ELSE "end_turn") \in Strings
        BY StringsAre
      <4>2. MessageDelta(IF x.finish = "tool_calls" THEN "tool_use"
                ELSE "end_turn") \in StreamEvents
        BY <4>1, EventTypes
      <4>3. QED
        BY <4>2, EmptySeq, OneOrTwo
    <3>8. <<MessageStart>> \in Seq(StreamEvents)
      BY EventTypes, OneOrTwo
    <3> HIDE DEF a, b, c, P, T
    <3>9. <<>> \o a = a /\ a \o b \in Seq(StreamEvents)
              /\ <<MessageStart>> \o a \in Seq(StreamEvents)
      BY <3>5, <3>6, <3>8, ConcatEmptySeq, ConcatProperties
    <3>10. (<<MessageStart>> \o a) \o b = <<MessageStart>> \o (a \o b)
      BY <3>5, <3>6, <3>8, ConcatAssociative
    <3>11. (<<MessageStart>> \o (a \o b)) \o c = <<MessageStart>> \o ((a \o b) \o c)
      BY <3>7, <3>8, <3>9, ConcatAssociative
    <3>12. QED
      BY <3>3, <3>4, <3>9, <3>10, <3>11
  <2>5. <<MessageStart>> \in Seq(StreamEvents) /\ T[1] \in Seq(StreamEvents)
            /\ P[1] \in Seq(StreamEvents)
    <3>1. <<MessageStart>> \in Seq(StreamEvents) /\ T[1] \in Seq(StreamEvents)
      BY <2>1, <2>2, EventTypes, OneOrTwo
    <3> HIDE DEF T, P
    <3>2. QED
      BY <2>4, <3>1, ConcatProperties
  <2>6. T \in Seq(Seq(StreamEvents)) /\ Len(T) = n
    <3>1. T = [i \in 1..n |-> T[i]]
      BY <2>1
    <3> HIDE DEF T
    <3>2. QED
      BY <2>1, <2>2, <3>1, IsSequence
  <2>7. P \in Seq(Seq(StreamEvents)) /\ Len(P) = n
    <3>1. P = [i \in 1..n |-> P[i]]
      BY <2>1
    <3>2. \A i \in 1..n : i = 1 \/ i \in 2..n
      BY <2>1
    <3> HIDE DEF T, P
    <3>3. \A i \in 1..n : P[i] \in Seq(StreamEvents)
      BY <2>2, <2>3, <2>5, <3>2
    <3>4. QED
      BY <2>1, <3>1, <3>3, IsSequence
  <2>8. Body(cs) = FlattenSeq(P) /\ Spread(cs, Told) = FlattenSeq(T)
    BY DEF Body, Spread
  <2> HIDE DEF P, T
  <2>9. SubSeq(P, 2, n) = SubSeq(T, 2, n)
    <3>1. 2 \in Int /\ n \in Int /\ (\A i \in 2..n : i \in 1..n)
      BY <2>1
    <3>2. \A i \in 2..n : T[i] \in Seq(StreamEvents) /\ P[i] \in Seq(StreamEvents)
      BY <2>2, <2>3, <3>1
    <3>3. /\ SubSeq(P, 2, n) \in Seq(Seq(StreamEvents))
                 /\ SubSeq(T, 2, n) \in Seq(Seq(StreamEvents))
          /\ Len(SubSeq(P, 2, n)) = IF 2 <= n THEN n - 2 + 1 ELSE 0
          /\ Len(SubSeq(T, 2, n)) = IF 2 <= n THEN n - 2 + 1 ELSE 0
          /\ \A i \in 1..n - 2 + 1 : SubSeq(P, 2, n)[i] = P[2 + i - 1]
                 /\ SubSeq(T, 2, n)[i] = T[2 + i - 1]
      BY <3>1, <3>2, SubSeqProperties
    <3>4. \A i \in 1..Len(SubSeq(P, 2, n)) : i \in 1..n - 2 + 1 /\ 2 + i - 1 \in 2..n
      BY <2>1, <3>3
    <3>5. \A i \in 1..Len(SubSeq(P, 2, n)) : SubSeq(P, 2, n)[i] = SubSeq(T, 2, n)[i]
      BY <2>3, <3>3, <3>4
    <3>6. QED
      BY <3>3, <3>5, SeqEqual
  <2> DEFINE rest == SubSeq(T, 2, n)
  <2>10. P # <<>> /\ T # <<>>
    BY <2>1, <2>6, <2>7, EmptySeq
  <2>11. P = <<P[1]>> \o rest /\ T = <<T[1]>> \o rest /\ rest \in Seq(Seq(StreamEvents))
    BY <2>6, <2>7, <2>9, <2>10, HeadAndRest
  <2> HIDE DEF rest
  <2>12. FlattenSeq(rest) \in Seq(StreamEvents)
    BY <2>11, FlattenType
  <2>13. ASSUME NEW u \in Seq(StreamEvents) PROVE FlattenSeq(<<u>> \o rest)
                    = u \o FlattenSeq(rest)
    <3>1. <<u>> \in Seq(Seq(StreamEvents)) /\ <<>> \in Seq(Seq(StreamEvents))
              /\ Append(<<>>, u) = <<u>>
      BY OneOrTwo, EmptySeq
    <3>2. FlattenSeq(<<u>>) = FlattenSeq(<<>>) \o u
      BY <3>1, FlattenAppend
    <3>3. FlattenSeq(<<u>>) = u
      BY <3>2, FlattenNone, ConcatEmptySeq
    <3>4. QED
      BY <2>11, <3>1, <3>3, FlattenConcat
  <2>14. FlattenSeq(P) = (<<MessageStart>> \o T[1]) \o FlattenSeq(rest)
    BY <2>4, <2>5, <2>11, <2>13
  <2>15. FlattenSeq(T) = T[1] \o FlattenSeq(rest)
    BY <2>5, <2>11, <2>13
  <2>16. (<<MessageStart>> \o T[1]) \o FlattenSeq(rest)
             = <<MessageStart>> \o (T[1] \o FlattenSeq(rest))
    <3> DEFINE a == <<MessageStart>>
               b == T[1]
               c == FlattenSeq(rest)
    <3>1. a \in Seq(StreamEvents) /\ b \in Seq(StreamEvents) /\ c \in Seq(StreamEvents)
      BY <2>5, <2>12
    <3> HIDE DEF a, b, c
    <3>2. (a \o b) \o c = a \o (b \o c)
      BY <3>1, ConcatAssociative
    <3>3. QED
      BY <3>2 DEF a, b, c
  <2>17. QED
    BY <2>8, <2>14, <2>15, <2>16
<1>3. QED
  BY <1>1, <1>2

(* Between the last message_start and the first message_stop.              *)
LEMMA ReadIs ==
    ASSUME NEW H \in Seq(StreamEvents), NEW B \in Seq(StreamEvents),
               NEW T \in Seq(StreamEvents),
           H # <<>>, \A i \in DOMAIN H : H[i].event = "message_start",
           T # <<>>, \A i \in DOMAIN T : T[i].event = "message_stop",
           \A i \in DOMAIN B : B[i].event \notin {"message_start", "message_stop"}
    PROVE  Read(H \o (B \o T)) = B
<1> DEFINE E == H \o (B \o T)
           h == Len(H)
           b == Len(B)
           t == Len(T)
<1>1. /\ h \in Nat \ {0} /\ b \in Nat /\ t \in Nat \ {0}
      /\ DOMAIN H = 1..h /\ DOMAIN B = 1..b /\ DOMAIN T = 1..t
  BY EmptySeq, LenProperties
<1>2. /\ B \o T \in Seq(StreamEvents) /\ Len(B \o T) = b + t
      /\ \A i \in 1..b + t : (B \o T)[i] = IF i <= b THEN B[i] ELSE T[i - b]
  BY ConcatProperties
<1>3. /\ E \in Seq(StreamEvents) /\ Len(E) = h + (b + t) /\ DOMAIN E = 1..h + (b + t)
      /\ \A i \in 1..h + (b + t) : E[i] = IF i <= h THEN H[i] ELSE (B \o T)[i - h]
  <2>1. E \in Seq(StreamEvents) /\ Len(E) = h + (b + t)
    BY <1>2, ConcatProperties
  <2>2. DOMAIN E = 1..h + (b + t)
    BY <2>1, LenProperties
  <2>3. QED
    BY <1>2, <2>1, <2>2, ConcatProperties
<1> HIDE DEF E, h, b, t
<1>4. /\ \A i \in 1..h : E[i].event = "message_start"
      /\ \A i \in h + 1..h + b : E[i] = B[i - h]
             /\ E[i].event \notin {"message_start", "message_stop"}
      /\ \A i \in h + b + 1..h + (b + t) : E[i].event = "message_stop"
  <2>1. \A i \in 1..h : E[i].event = "message_start"
    <3>1. \A i \in 1..h : i \in 1..h + (b + t) /\ i <= h
      BY <1>1
    <3>2. QED
      BY <1>1, <1>3, <3>1
  <2>2. ASSUME NEW i \in h + 1..h + b
        PROVE  E[i] = B[i - h] /\ E[i].event \notin {"message_start", "message_stop"}
    <3>1. i \in 1..h + (b + t) /\ ~(i <= h) /\ i - h \in 1..b + t /\ i - h <= b
              /\ i - h \in 1..b
      BY <1>1
    <3>2. E[i] = B[i - h]
      BY <1>2, <1>3, <3>1
    <3>3. QED
      BY <1>1, <3>1, <3>2
  <2>3. ASSUME NEW i \in h + b + 1..h + (b + t) PROVE E[i].event = "message_stop"
    <3>1. i \in 1..h + (b + t) /\ ~(i <= h) /\ i - h \in 1..b + t /\ ~(i - h <= b)
              /\ (i - h) - b \in 1..t
      BY <1>1
    <3>2. E[i] = T[(i - h) - b]
      BY <1>2, <1>3, <3>1
    <3>3. QED
      BY <1>1, <3>1, <3>2
  <2>4. QED
    BY <2>1, <2>2, <2>3
<1>5. \A i \in 1..h + (b + t) : i \in 1..h \/ i \in h + 1..h + b
          \/ i \in h + b + 1..h + (b + t)
  BY <1>1
<1> DEFINE MS == {i \in DOMAIN E : E[i].event = "message_start"}
           ME == {i \in DOMAIN E : E[i].event = "message_stop"}
<1>6. Max(MS) = h
  <2>1. MS \in SUBSET Nat /\ h \in MS
    BY <1>1, <1>3, <1>4
  <2>2. \A i \in MS : i \in 1..h
    BY <1>3, <1>4, <1>5
  <2>3. \A i \in MS : i <= h
    BY <1>1, <2>2
  <2> HIDE DEF MS
  <2>4. QED
    BY <2>1, <2>3, MaxIs
<1>7. Min(ME) = h + b + 1
  <2>1. ME \in SUBSET Nat /\ h + b + 1 \in ME
    BY <1>1, <1>3, <1>4
  <2>2. \A i \in ME : i \in h + b + 1..h + (b + t)
    BY <1>3, <1>4, <1>5
  <2>3. \A i \in ME : h + b + 1 <= i
    BY <1>1, <2>2
  <2> HIDE DEF ME
  <2>4. Min(ME) \in ME /\ \A i \in ME : Min(ME) <= i
    BY <2>1, MinOf
  <2>5. Min(ME) \in Nat /\ h + b + 1 \in Nat
    BY <1>1, <2>1, <2>4
  <2>6. QED
    BY <2>1, <2>3, <2>4, <2>5
<1>8. Read(E) = SubSeq(E, h + 1, h + b)
  <2>1. Read(E) = SubSeq(E, Max(MS) + 1, Min(ME) - 1)
    BY DEF Read
  <2> HIDE DEF MS, ME
  <2>2. (h + b + 1) - 1 = h + b
    BY <1>1
  <2>3. QED
    BY <1>6, <1>7, <2>1, <2>2
<1>9. SubSeq(E, h + 1, h + b) = B
  <2>1. h + 1 \in Int /\ h + b \in Int /\ \A i \in h + 1..h + b : E[i] \in StreamEvents
    <3>1. \A i \in h + 1..h + b : i \in 1..Len(E)
      BY <1>1, <1>3
    <3>2. QED
      BY <1>1, <1>3, <3>1, ElementOfSeq
  <2>2. /\ SubSeq(E, h + 1, h + b) \in Seq(StreamEvents)
        /\ Len(SubSeq(E, h + 1, h + b)) = IF h + 1 <= h + b THEN (h + b) - (h + 1) + 1
               ELSE 0
        /\ \A i \in 1..(h + b) - (h + 1) + 1 :
               SubSeq(E, h + 1, h + b)[i] = E[(h + 1) + i - 1]
    BY <2>1, SubSeqProperties
  <2>3. Len(SubSeq(E, h + 1, h + b)) = b
    BY <1>1, <2>2
  <2>4. ASSUME NEW i \in 1..b PROVE SubSeq(E, h + 1, h + b)[i] = B[i]
    <3>1. i \in 1..(h + b) - (h + 1) + 1 /\ (h + 1) + i - 1 \in h + 1..h + b
              /\ ((h + 1) + i - 1) - h = i
      BY <1>1
    <3>2. QED
      BY <1>4, <2>2, <3>1
  <2>5. Len(B) = b
    BY DEF b
  <2>6. QED
    BY <2>2, <2>3, <2>4, <2>5, SeqEqual
<1>10. QED
  BY <1>8, <1>9 DEF E

-----------------------------------------------------------------------------
(* The events of a whole answer.                                           *)
LEMMA Assoc ==
    ASSUME NEW S, NEW a \in Seq(S), NEW b \in Seq(S), NEW c \in Seq(S)
    PROVE  (a \o b) \o c = a \o (b \o c) /\ a \o b \in Seq(S)
BY ConcatAssociative, ConcatProperties

(* Sequences of one and of two, put together.                              *)
LEMMA Singles ==
    ASSUME NEW S, NEW x \in S, NEW y \in S
    PROVE  /\ <<x>> \in Seq(S) /\ <<y>> \in Seq(S) /\ <<x, y>> \in Seq(S)
           /\ <<x>> \o <<y>> = <<x, y>> /\ Append(<<x>>, y) = <<x, y>>
<1>1. <<x>> \in Seq(S) /\ <<y>> \in Seq(S) /\ <<x, y>> \in Seq(S) /\ <<>> \in Seq(S)
  BY OneOrTwo, EmptySeq
<1>2. Append(<<x>>, y) = <<x, y>>
  <2>1. /\ Append(<<x>>, y) \in Seq(S) /\ Len(Append(<<x>>, y)) = Len(<<x>>) + 1
        /\ \A i \in 1..Len(<<x>>) : Append(<<x>>, y)[i] = <<x>>[i]
        /\ Append(<<x>>, y)[Len(<<x>>) + 1] = y
    BY <1>1, AppendProperties
  <2>2. Len(<<x>>) = 1 /\ <<x>>[1] = x /\ Len(<<x, y>>) = 2 /\ <<x, y>>[1] = x
            /\ <<x, y>>[2] = y
    OBVIOUS
  <2>3. Len(Append(<<x>>, y)) = 2 /\ Append(<<x>>, y)[1] = x /\ Append(<<x>>, y)[2] = y
    BY <2>1, <2>2
  <2>4. \A i \in 1..2 : Append(<<x>>, y)[i] = <<x, y>>[i]
    BY <2>2, <2>3
  <2>5. QED
    BY <1>1, <2>1, <2>2, <2>3, <2>4, SeqEqual
<1>3. <<x>> \o <<y>> = Append(<<x>>, y)
  <2>1. <<y>> = Append(<<>>, y)
    OBVIOUS
  <2>2. <<x>> \o Append(<<>>, y) = Append(<<x>> \o <<>>, y)
    BY <1>1, AppendInto
  <2>3. <<x>> \o <<>> = <<x>>
    BY <1>1, ConcatEmptySeq
  <2>4. QED
    BY <2>1, <2>2, <2>3
<1>4. QED
  BY <1>1, <1>2, <1>3

(* The same, kept from the provers' rules about sequences.                 *)
SeqsOf(S) == Seq(S)
Cat(a, b) == a \o b
(* Concatenation, by a name of its own, is associative.                    *)
LEMMA CatIs ==
    ASSUME NEW S
    PROVE  /\ \A a, b \in SeqsOf(S) : Cat(a, b) \in SeqsOf(S)
           /\ \A a, b, c \in SeqsOf(S) : Cat(a, Cat(b, c)) = Cat(Cat(a, b), c)
<1>1. ASSUME NEW a \in Seq(S), NEW b \in Seq(S) PROVE a \o b \in Seq(S)
  BY ConcatProperties
<1>2. ASSUME NEW a \in Seq(S), NEW b \in Seq(S), NEW c \in Seq(S)
      PROVE  a \o (b \o c) = (a \o b) \o c
  BY ConcatAssociative
<1>3. QED
  BY <1>1, <1>2 DEF Cat, SeqsOf

(* The parts of an answer: what begins it, what is in it, what ends it.    *)
LEMMA Envelope ==
    ASSUME NEW S, NEW T \in SeqsOf(S), NEW M \in SeqsOf(S), NEW D \in SeqsOf(S),
           NEW E \in SeqsOf(S), NEW Z \in SeqsOf(S)
    PROVE  Cat(Cat(M, Cat(M, Cat(T, Cat(D, Cat(E, Z))))), Z)
              = Cat(Cat(M, M), Cat(Cat(T, Cat(D, E)), Cat(Z, Z)))
<1>1. Cat(D, E) \in SeqsOf(S) /\ Cat(E, Z) \in SeqsOf(S) /\ Cat(M, M) \in SeqsOf(S)
  BY CatIs
<1>2. Cat(T, Cat(D, E)) \in SeqsOf(S)
  BY <1>1, CatIs
<1>3. Cat(Cat(T, Cat(D, E)), Z) \in SeqsOf(S)
  BY <1>2, CatIs
<1>4. Cat(T, Cat(D, Cat(E, Z))) = Cat(Cat(T, Cat(D, E)), Z)
  BY <1>1, CatIs
<1>5. Cat(M, Cat(M, Cat(Cat(T, Cat(D, E)), Z)))
          = Cat(Cat(M, M), Cat(Cat(T, Cat(D, E)), Z))
  BY <1>3, CatIs
<1>6. Cat(Cat(Cat(M, M), Cat(Cat(T, Cat(D, E)), Z)), Z)
          = Cat(Cat(M, M), Cat(Cat(Cat(T, Cat(D, E)), Z), Z))
  BY <1>1, <1>3, CatIs
<1>7. Cat(Cat(Cat(T, Cat(D, E)), Z), Z) = Cat(Cat(T, Cat(D, E)), Cat(Z, Z))
  BY <1>2, CatIs
<1>8. QED
  BY <1>4, <1>5, <1>6, <1>7

AnswerOf(cs) == <<MessageStart>> \o Body(cs) \o <<MessageStop>>

(* Only blocks are told of pieces.                                         *)
LEMMA OnlyBlocks ==
    ASSUME NEW n, NEW sent, AllPieces(sent, n)
    PROVE  /\ Spread(sent, Told) \in Seq(StreamEvents)
           /\ \A i \in DOMAIN Spread(sent, Told) :
                 Spread(sent, Told)[i].event \in {"content_block_start",
                     "content_block_delta"}
<1>1. sent \in Seq(Chunks) /\ \A j \in DOMAIN sent : Piece(sent[j])
  BY DEF AllPieces
<1>2. Told \in Makers(Chunks, StreamEvents)
  BY ToldIs
<1>3. ASSUME NEW x, Piece(x), NEW k \in DOMAIN Told[x]
      PROVE  Told[x][k].event \in {"content_block_start", "content_block_delta"}
  <2>1. CASE x.calls = <<>>
    <3>1. Told[x] = IF x.text # <<>>
              THEN <<Event("content_block_delta", 0, Text(x.text))>> ELSE <<>>
      BY <1>3, <2>1, ToldPiece
    <3>2. QED
      BY <1>3, <3>1 DEF Event
  <2>2. CASE x.calls # <<>>
    <3>1. PICK f \in Frags : x.calls = <<f>>
      BY <1>3, <2>2 DEF Piece
    <3>2. Told[x] = <<FragEvent(f)>>
      BY <1>3, <3>1, ToldPiece
    <3>3. FragEvent(f).event \in {"content_block_start", "content_block_delta"}
      BY DEF FragEvent, Event
    <3>4. QED
      BY <1>3, <3>2, <3>3
  <2>3. QED
    BY <2>1, <2>2
<1>4. QED
  <2>1. Spread(sent, Told) \in Seq(StreamEvents)
    BY <1>1, <1>2, SpreadType
  <2>2. ASSUME NEW i \in DOMAIN Spread(sent, Told)
        PROVE  Spread(sent, Told)[i].event \in {"content_block_start",
                   "content_block_delta"}
    <3>1. \E j \in DOMAIN sent : \E k \in DOMAIN Told[sent[j]] :
              Spread(sent, Told)[i] = Told[sent[j]][k]
      BY <1>1, <1>2, SpreadFrom
    <3>2. QED
      BY <1>1, <1>3, <3>1
  <2>3. QED
    BY <2>1, <2>2

(* What was broken off reads as what came.                                 *)
LEMMA BrokenRead ==
    ASSUME NEW n, NEW sent, AllPieces(sent, n)
    PROVE  Read(AnswerOf(sent)) = Spread(sent, Told)
<1> DEFINE T == Spread(sent, Told)
           M == <<MessageStart>>
           Z == <<MessageStop>>
<1>1. T \in Seq(StreamEvents) /\ M \in Seq(StreamEvents) /\ Z \in Seq(StreamEvents)
  BY OnlyBlocks, EventTypes, OneOrTwo
<1>2. \A i \in DOMAIN T : T[i].event \notin {"message_start", "message_stop"}
  BY OnlyBlocks
<1>3. M # <<>> /\ Z # <<>> /\ (\A i \in DOMAIN M : M[i].event = "message_start")
      /\ \A i \in DOMAIN Z : Z[i].event = "message_stop"
  BY DEF MessageStart, MessageStop, Event
<1>4. CASE sent = <<>>
  <2>1. AnswerOf(sent) = (M \o <<>>) \o Z /\ T = <<>>
    BY <1>4, EmptySeq, BodyIs, SpreadNone DEF AnswerOf
  <2> HIDE DEF M, Z
  <2>2. (M \o <<>>) \o Z = M \o (<<>> \o Z)
    BY <1>1, EmptySeq, ConcatEmptySeq
  <2>3. Read(M \o (<<>> \o Z)) = <<>>
    <3>1. <<>> \in Seq(StreamEvents)
              /\ \A i \in DOMAIN <<>> :
                     <<>>[i].event \notin {"message_start", "message_stop"}
      BY EmptySeq
    <3>2. QED
      BY <1>1, <1>3, <3>1, ReadIs
  <2>4. QED
    BY <2>1, <2>2, <2>3
<1>5. CASE sent # <<>>
  <2> DEFINE H == <<MessageStart, MessageStart>>
  <2>1. sent \in Seq(Chunks) /\ 1 \in DOMAIN sent /\ ~sent[1].usage
    <3>1. sent \in Seq(Chunks) /\ \A i \in DOMAIN sent : Piece(sent[i])
      BY DEF AllPieces
    <3>2. 1 \in DOMAIN sent
      BY <1>5, <3>1, EmptySeq, LenProperties
    <3>3. QED
      BY <3>1, <3>2 DEF Piece
  <2>2. AnswerOf(sent) = (M \o (M \o T)) \o Z
    BY <1>5, <2>1, BodyIs DEF AnswerOf
  <2>3. H \in Seq(StreamEvents) /\ H = M \o M
    BY EventTypes, Singles
  <2>4. H # <<>> /\ \A i \in DOMAIN H : H[i].event = "message_start"
    <3>1. \A i \in DOMAIN H : H[i] = MessageStart
      OBVIOUS
    <3>2. MessageStart.event = "message_start"
      BY DEF MessageStart, Event
    <3>3. QED
      BY <3>1, <3>2
  <2> HIDE DEF M, Z, T, H
  <2>5. (M \o (M \o T)) \o Z = H \o (T \o Z)
    <3>1. /\ M \in SeqsOf(StreamEvents) /\ T \in SeqsOf(StreamEvents)
          /\ Z \in SeqsOf(StreamEvents) /\ H \in SeqsOf(StreamEvents)
      BY <1>1, <2>3 DEF SeqsOf
    <3>2. Cat(M, Cat(M, T)) = Cat(Cat(M, M), T) /\ Cat(H, Cat(T, Z)) = Cat(Cat(H, T), Z)
      BY <3>1, CatIs
    <3>3. QED
      BY <2>3, <3>2 DEF Cat
  <2>6. Read(H \o (T \o Z)) = T
    BY <1>1, <1>2, <1>3, <2>3, <2>4, ReadIs
  <2>7. QED
    BY <2>2, <2>5, <2>6 DEF T
<1>6. QED
  BY <1>4, <1>5

-----------------------------------------------------------------------------
(* A whole answer.                                                         *)
FinishOf(r) == IF r.calls = <<>> THEN "stop" ELSE "tool_calls"
ReasonOf(r) == IF r.calls = <<>> THEN "end_turn" ELSE "tool_use"
Finish(r) == [Chunk(FALSE, <<>>, <<>>) EXCEPT !.finish = FinishOf(r)]
Usage == [Chunk(FALSE, <<>>, <<>>) EXCEPT !.usage = TRUE]

(* The last two chunks.                                                    *)
LEMMA ClosingIs ==
    ASSUME NEW r
    PROVE  /\ Closing(r) = <<Finish(r), Usage>> /\ Finish(r) \in Chunks
                  /\ Usage \in Chunks
           /\ ReasonOf(r) \in Strings /\ Closing(r)[1].finish = FinishOf(r)
           /\ ~Finish(r).usage /\ Finish(r).calls = <<>> /\ Usage.calls = <<>>
           /\ Told[Finish(r)] = <<MessageDelta(ReasonOf(r))>>
           /\ Told[Usage] = <<MessageDelta(""), MessageStop>>
<1>1. FinishOf(r) \in Strings /\ ReasonOf(r) \in Strings /\ "" \in Strings
          /\ <<>> \in Words /\ <<>> \in Seq(Frags)
  BY StringsAre, EmptySeq DEF FinishOf, ReasonOf, Words
<1>2. ASSUME NEW f \in Strings
      PROVE  LET x == [Chunk(FALSE, <<>>, <<>>) EXCEPT !.finish = f]
             IN  x \in Chunks /\ x.finish = f /\ ~x.usage /\ x.calls = <<>>
                     /\ x.text = <<>>
  BY <1>1 DEF Chunk, Chunks
<1>3. /\ Finish(r) \in Chunks /\ Finish(r).finish = FinishOf(r) /\ ~Finish(r).usage
      /\ Finish(r).calls = <<>> /\ Finish(r).text = <<>>
  <2>1. ASSUME NEW f, f = FinishOf(r) PROVE Finish(r)
                   = [Chunk(FALSE, <<>>, <<>>) EXCEPT !.finish = f]
    BY <2>1 DEF Finish
  <2>2. PICK f \in Strings : f = FinishOf(r)
    BY <1>1
  <2>3. QED
    BY <1>2, <2>1, <2>2
<1>9. Usage \in Chunks /\ Usage.usage /\ Usage.calls = <<>> /\ Usage.text = <<>>
  BY <1>1 DEF Usage, Chunk, Chunks
<1>4. Closing(r) = <<Finish(r), Usage>>
  BY DEF Closing, Finish, Usage, FinishOf
<1>5. Closing(r)[1].finish = FinishOf(r)
  <2>1. \A x, y : <<x, y>>[1] = x
    OBVIOUS
  <2>2. Closing(r)[1] = Finish(r)
    BY <1>4, <2>1
  <2>3. QED
    BY <1>3, <2>2
<1>6. Told[Usage] = <<MessageDelta(""), MessageStop>>
  BY <1>9, ToldIs DEF Tell
<1>7. Told[Finish(r)] = <<MessageDelta(ReasonOf(r))>>
  <2>1. Spread(<<>>, EventsOf) = <<>>
    BY SpreadNone
  <2>2. Told[Finish(r)] = (<<>> \o <<>>)
           \o <<MessageDelta(IF FinishOf(r) = "tool_calls" THEN "tool_use"
               ELSE "end_turn")>>
    <3>1. FinishOf(r) # ""
      BY DEF FinishOf
    <3>2. QED
      BY <1>3, <2>1, <3>1, ToldIs DEF Tell
  <2>3. (IF FinishOf(r) = "tool_calls" THEN "tool_use" ELSE "end_turn") = ReasonOf(r)
    BY DEF FinishOf, ReasonOf
  <2>4. <<MessageDelta(ReasonOf(r))>> \in Seq(StreamEvents)
    BY <1>1, EventTypes, OneOrTwo
  <2>5. QED
    BY <2>2, <2>3, <2>4, EmptySeq, ConcatEmptySeq
<1>8. QED
  BY <1>1, <1>3, <1>4, <1>5, <1>6, <1>7, <1>9

(* Read as the agent reads it.                                             *)
LEMMA WholeAnswer ==
    ASSUME NEW r, NEW sent, AllPieces(sent, Len(r.calls))
    PROVE  LET cs == sent \o Closing(r)
               T == Spread(sent, Told) \o EndOf(ReasonOf(r))
           IN  /\ cs \in Seq(Chunks)
               /\ T \in Seq(StreamEvents)
               /\ AnswerOf(cs) = <<MessageStart, MessageStart>>
                      \o (T \o <<MessageStop, MessageStop>>)
               /\ Read(AnswerOf(cs)) = T
<1> DEFINE cs == sent \o Closing(r)
           T == Spread(sent, Told) \o EndOf(ReasonOf(r))
           H == <<MessageStart, MessageStart>>
           Z == <<MessageStop, MessageStop>>
           D == <<MessageDelta(ReasonOf(r))>>
           U == <<MessageDelta(""), MessageStop>>
<1>1. sent \in Seq(Chunks) /\ \A i \in DOMAIN sent : Piece(sent[i])
  BY DEF AllPieces
<1>2. /\ Closing(r) \in Seq(Chunks) /\ Closing(r) = <<Finish(r)>> \o <<Usage>>
      /\ <<Finish(r)>> \in Seq(Chunks) /\ <<Usage>> \in Seq(Chunks)
  BY ClosingIs, Singles
<1>3. cs \in Seq(Chunks)
  BY <1>1, <1>2, ConcatProperties
<1>4. Told \in Makers(Chunks, StreamEvents) /\ Spread(sent, Told) \in Seq(StreamEvents)
  BY ToldIs, OnlyBlocks
<1>5. Spread(cs, Told) = Spread(sent, Told) \o (D \o U)
  <2>1. Spread(<<Finish(r)>>, Told) = D /\ Spread(<<Usage>>, Told) = U
    BY <1>4, ClosingIs, SpreadOne
  <2>2. Spread(<<Finish(r)>> \o <<Usage>>, Told)
            = Spread(<<Finish(r)>>, Told) \o Spread(<<Usage>>, Told)
    BY <1>2, <1>4, SpreadConcat
  <2>3. Spread(Closing(r), Told) = D \o U
    BY <1>2, <2>1, <2>2
  <2>4. Spread(cs, Told) = Spread(sent, Told) \o Spread(Closing(r), Told)
    BY <1>1, <1>2, <1>4, SpreadConcat
  <2>5. QED
    BY <2>3, <2>4
<1>6. cs # <<>> /\ ~cs[1].usage
  <2>1. Len(sent) \in Nat /\ Len(Closing(r)) = 2 /\ DOMAIN sent = 1..Len(sent)
    <3>1. \A x, y : Len(<<x, y>>) = 2
      OBVIOUS
    <3>2. Len(Closing(r)) = 2
      BY <3>1, ClosingIs
    <3>3. QED
      BY <1>1, <3>2, LenProperties
  <2>2. Len(cs) = Len(sent) + 2 /\ \A i \in 1..Len(sent) + 2 : cs[i] = IF i <= Len(sent)
            THEN sent[i] ELSE Closing(r)[i - Len(sent)]
    BY <1>1, <1>2, <2>1, ConcatProperties
  <2>3. cs # <<>>
    BY <1>3, <2>1, <2>2, EmptySeq
  <2>4. CASE Len(sent) = 0
    <3>1. cs[1] = Closing(r)[1]
      BY <2>1, <2>2, <2>4
    <3>2. Closing(r)[1] = Finish(r)
      <4>1. \A x, y : <<x, y>>[1] = x
        OBVIOUS
      <4>2. QED
        BY <4>1, ClosingIs
    <3>3. QED
      BY <2>3, <3>1, <3>2, ClosingIs
  <2>5. CASE Len(sent) # 0
    <3>1. cs[1] = sent[1] /\ 1 \in DOMAIN sent
      BY <2>1, <2>2, <2>5
    <3>2. QED
      BY <1>1, <2>3, <3>1 DEF Piece
  <2>6. QED
    BY <2>4, <2>5
<1>7. AnswerOf(cs) = (<<MessageStart>>
          \o (<<MessageStart>> \o (Spread(sent, Told) \o (D \o U)))) \o <<MessageStop>>
  <2> HIDE DEF cs, D, U
  <2>1. Body(cs) = <<MessageStart>> \o Spread(cs, Told)
    BY <1>3, <1>6, BodyIs
  <2>2. QED
    BY <1>5, <2>1 DEF AnswerOf
<1>8. /\ MessageDelta(ReasonOf(r)) \in StreamEvents /\ MessageDelta("") \in StreamEvents
      /\ MessageStart \in StreamEvents /\ MessageStop \in StreamEvents
  BY EventTypes, ClosingIs, StringsAre
<1>9. AnswerOf(cs) = H \o (T \o Z)
  <2> DEFINE m == <<MessageStart>>
             d == <<MessageDelta(ReasonOf(r))>>
             e == <<MessageDelta("")>>
             z == <<MessageStop>>
             S == Spread(sent, Told)
  <2>1. /\ m \in Seq(StreamEvents) /\ d \in Seq(StreamEvents) /\ e \in Seq(StreamEvents)
        /\ z \in Seq(StreamEvents) /\ S \in Seq(StreamEvents)
    BY <1>4, <1>8, OneOrTwo
  <2>2. H = m \o m /\ Z = z \o z /\ U = e \o z /\ EndOf(ReasonOf(r)) = d \o e
    BY <1>8, Singles DEF EndOf
  <2>3. AnswerOf(cs) = (m \o (m \o (S \o (d \o (e \o z))))) \o z
    BY <1>7, <2>2
  <2> HIDE DEF m, d, e, z, S
  <2>4. (m \o (m \o (S \o (d \o (e \o z))))) \o z
            = (m \o m) \o ((S \o (d \o e)) \o (z \o z))
    <3>1. /\ m \in SeqsOf(StreamEvents) /\ d \in SeqsOf(StreamEvents)
                 /\ e \in SeqsOf(StreamEvents)
          /\ z \in SeqsOf(StreamEvents) /\ S \in SeqsOf(StreamEvents)
      BY <2>1 DEF SeqsOf
    <3>2. Cat(Cat(m, Cat(m, Cat(S, Cat(d, Cat(e, z))))), z)
              = Cat(Cat(m, m), Cat(Cat(S, Cat(d, e)), Cat(z, z)))
      BY <3>1, Envelope
    <3>3. QED
      BY <3>2 DEF Cat
  <2>5. QED
    BY <2>2, <2>3, <2>4 DEF S
<1>10. T \in Seq(StreamEvents) /\ EndOf(ReasonOf(r)) \in Seq(StreamEvents)
  BY <1>4, <1>8, Singles, ConcatProperties DEF EndOf
<1>11. H \in Seq(StreamEvents) /\ Z \in Seq(StreamEvents) /\ H # <<>> /\ Z # <<>>
  BY <1>8, Singles
<1>12. (\A i \in DOMAIN H : H[i].event = "message_start")
           /\ \A i \in DOMAIN Z : Z[i].event = "message_stop"
  <2>1. (\A i \in DOMAIN H : H[i] = MessageStart)
            /\ \A i \in DOMAIN Z : Z[i] = MessageStop
    OBVIOUS
  <2>2. MessageStart.event = "message_start" /\ MessageStop.event = "message_stop"
    BY DEF MessageStart, MessageStop, Event
  <2>3. QED
    BY <2>1, <2>2
<1>13. \A i \in DOMAIN T : T[i].event \notin {"message_start", "message_stop"}
  <2> DEFINE S == Spread(sent, Told)
             Q == EndOf(ReasonOf(r))
  <2>1. /\ \A i \in DOMAIN S : S[i].event \in {"content_block_start",
               "content_block_delta"}
        /\ \A i \in DOMAIN Q : Q[i].event = "message_delta"
    <3>1. \A i \in DOMAIN Q : Q[i] = MessageDelta(ReasonOf(r)) \/ Q[i] = MessageDelta("")
      <4>1. \A x, y : \A i \in DOMAIN <<x, y>> : <<x, y>>[i] = x \/ <<x, y>>[i] = y
        OBVIOUS
      <4>2. Q = <<MessageDelta(ReasonOf(r)), MessageDelta("")>>
        BY DEF EndOf
      <4> HIDE DEF Q
      <4>3. QED
        BY <4>1, <4>2
    <3>2. \A x : MessageDelta(x).event = "message_delta"
      BY DEF MessageDelta, Event
    <3>3. QED
      BY <3>1, <3>2, OnlyBlocks
  <2> HIDE DEF S, Q
  <2>2. S \in Seq(StreamEvents) /\ Q \in Seq(StreamEvents)
    BY <1>4, <1>10 DEF S, Q
  <2>3. ASSUME NEW i \in DOMAIN (S \o Q) PROVE (S \o Q)[i].event \notin {"message_start",
                   "message_stop"}
    <3>1. /\ Len(S) \in Nat /\ Len(Q) \in Nat /\ DOMAIN S = 1..Len(S)
                 /\ DOMAIN Q = 1..Len(Q)
          /\ S \o Q \in Seq(StreamEvents) /\ Len(S \o Q) = Len(S) + Len(Q)
          /\ \A k \in 1..Len(S) + Len(Q) : (S \o Q)[k] = IF k <= Len(S) THEN S[k]
                 ELSE Q[k - Len(S)]
      BY <2>2, LenProperties, ConcatProperties
    <3>2. i \in 1..Len(S) + Len(Q)
      BY <3>1, LenProperties
    <3>3. CASE i <= Len(S)
      BY <2>1, <3>1, <3>2, <3>3
    <3>4. CASE ~(i <= Len(S))
      <4>1. (S \o Q)[i] = Q[i - Len(S)] /\ i - Len(S) \in DOMAIN Q
        BY <3>1, <3>2, <3>4
      <4>2. QED
        BY <2>1, <4>1
    <3>5. QED
      BY <3>3, <3>4
  <2>4. QED
    BY <2>3 DEF S, Q
<1> HIDE DEF T, H, Z
<1>14. Read(H \o (T \o Z)) = T
  BY <1>10, <1>11, <1>12, <1>13, ReadIs
<1>15. QED
  BY <1>3, <1>9, <1>10, <1>14 DEF T, H, Z

-----------------------------------------------------------------------------
(* What survives of a whole answer.                                        *)
LEMMA RangeConcat ==
    ASSUME NEW S, NEW s \in Seq(S), NEW t \in Seq(S)
    PROVE  Range(s \o t) = Range(s) \cup Range(t)
<1>1. /\ Len(s) \in Nat /\ Len(t) \in Nat /\ DOMAIN s = 1..Len(s) /\ DOMAIN t = 1..Len(t)
      /\ s \o t \in Seq(S) /\ Len(s \o t) = Len(s) + Len(t)
      /\ \A k \in 1..Len(s) + Len(t) : (s \o t)[k] = IF k <= Len(s) THEN s[k]
             ELSE t[k - Len(s)]
  BY LenProperties, ConcatProperties
<1>2. DOMAIN (s \o t) = 1..Len(s) + Len(t)
  BY <1>1, LenProperties
<1> DEFINE u == s \o t
<1> HIDE DEF u
<1>3. ASSUME NEW i \in DOMAIN u PROVE u[i] \in Range(s) \cup Range(t)
  <2>1. i \in 1..Len(s) + Len(t) /\ u[i] = IF i <= Len(s) THEN s[i] ELSE t[i - Len(s)]
    BY <1>1, <1>2, <1>3 DEF u
  <2>2. i <= Len(s) => i \in DOMAIN s
    BY <1>1, <2>1
  <2>3. ~(i <= Len(s)) => i - Len(s) \in DOMAIN t
    BY <1>1, <2>1
  <2>4. QED
    BY <2>1, <2>2, <2>3 DEF Range
<1>4. ASSUME NEW i \in DOMAIN s PROVE s[i] \in Range(u)
  <2>1. i \in 1..Len(s) + Len(t) /\ i <= Len(s)
    BY <1>1
  <2>2. i \in DOMAIN u /\ u[i] = s[i]
    BY <1>1, <1>2, <2>1 DEF u
  <2>3. QED
    BY <2>2 DEF Range
<1>5. ASSUME NEW i \in DOMAIN t PROVE t[i] \in Range(u)
  <2>1. i + Len(s) \in 1..Len(s) + Len(t) /\ ~(i + Len(s) <= Len(s))
            /\ i + Len(s) - Len(s) = i
    BY <1>1
  <2>2. i + Len(s) \in DOMAIN u /\ u[i + Len(s)] = t[i]
    BY <1>1, <1>2, <2>1 DEF u
  <2>3. QED
    BY <2>2 DEF Range
<1>6. Range(u) = Range(s) \cup Range(t)
  BY <1>3, <1>4, <1>5 DEF Range
<1>7. QED
  BY <1>6 DEF u

(* The fragments of a whole reply.                                         *)
LEMMA WholeFrags ==
    ASSUME NEW r, GoodReply(r), NEW sent, Whole(sent, r)
    PROVE  LET F == Spread(sent, CallsIn)
           IN  /\ F \in Seq(Frags)
               /\ \A k \in DOMAIN F : F[k].index \in 1..Len(r.calls)
               /\ \A c \in 1..Len(r.calls) : Spread(F, Only(c)) = Fragments(c, r.calls[c])
<1> DEFINE F == Spread(sent, CallsIn)
<1>1. /\ sent \in Seq(Chunks)
      /\ \A i \in DOMAIN sent : \A k \in DOMAIN sent[i].calls :
             sent[i].calls[k].index \in 1..Len(r.calls)
  BY DEF Whole, AllPieces
<1>2. /\ CallsIn \in Makers(Chunks, Frags)
      /\ \A c : Only(c) \in Makers(Frags, Frags) /\ FragsOf(c) \in Makers(Chunks, Frags)
  BY ChunkFunctions
<1>3. F \in Seq(Frags)
  BY <1>1, <1>2, SpreadType
<1>4. \A j \in DOMAIN sent : sent[j] \in Chunks
  BY <1>1, LenProperties, ElementOfSeq
<1>5. ASSUME NEW k \in DOMAIN F PROVE F[k].index \in 1..Len(r.calls)
  <2>1. \E j \in DOMAIN sent : \E m \in DOMAIN CallsIn[sent[j]] :
            F[k] = CallsIn[sent[j]][m]
    BY <1>1, <1>2, SpreadFrom
  <2>2. PICK j \in DOMAIN sent : \E m \in DOMAIN CallsIn[sent[j]] :
            F[k] = CallsIn[sent[j]][m]
    BY <2>1
  <2>3. CallsIn[sent[j]] = sent[j].calls
    BY <1>4 DEF CallsIn
  <2>4. QED
    BY <1>1, <2>2, <2>3
<1>6. ASSUME NEW c \in 1..Len(r.calls) PROVE Spread(F, Only(c)) = Fragments(c, r.calls[c])
  <2>1. \A j \in DOMAIN sent : FragsOf(c)[sent[j]] = Spread(CallsIn[sent[j]], Only(c))
    BY <1>4 DEF FragsOf, CallsIn
  <2>2. Spread(F, Only(c)) = Spread(sent, FragsOf(c))
    BY <1>1, <1>2, <2>1, SpreadTwice
  <2>3. QED
    BY <2>2 DEF Whole
<1>7. QED
  BY <1>3, <1>5, <1>6

Back(events) == FlattenSeq([i \in DOMAIN events |-> EventToChunk(events[i])])

(* The translation back.                                                   *)
LEMMA BackIs ==
    ASSUME NEW evs \in Seq(StreamEvents)
    PROVE  /\ Back(evs) = Spread(evs, BackOf) /\ Back(evs) \in Seq(Chunks)
           /\ Spread(Back(evs), CallsIn) = Spread(evs, BackCalls)
<1>1. \A i \in DOMAIN evs : evs[i] \in StreamEvents
  BY LenProperties, ElementOfSeq
<1>2. Back(evs) = Spread(evs, BackOf)
  <2>1. [i \in DOMAIN evs |-> EventToChunk(evs[i])]
            = [i \in DOMAIN evs |-> BackOf[evs[i]]]
    BY <1>1 DEF BackOf
  <2>2. QED
    BY <2>1 DEF Back, Spread
<1>3. Spread(evs, BackOf) \in Seq(Chunks)
  BY BackTypes, SpreadType
<1>4. Spread(Spread(evs, BackOf), CallsIn) = Spread(evs, BackCalls)
  <2>1. \A j \in DOMAIN evs : BackCalls[evs[j]] = Spread(BackOf[evs[j]], CallsIn)
    BY <1>1 DEF BackCalls, BackOf
  <2>2. /\ BackOf \in Makers(StreamEvents, Chunks)
               /\ BackCalls \in Makers(StreamEvents, Frags)
        /\ CallsIn \in Makers(Chunks, Frags)
    BY BackTypes, ChunkFunctions
  <2>3. QED
    BY <2>1, <2>2, SpreadTwice
<1>5. QED
  BY <1>2, <1>3, <1>4

(* Nothing but blocks brings calls back.                                   *)
LEMMA NoCallsBack ==
    /\ BackCalls[MessageStart] = <<>> /\ BackCalls[MessageStop] = <<>>
    /\ \A r \in Strings : BackCalls[MessageDelta(r)] = <<>>
<1>1. /\ MessageStart \in StreamEvents /\ MessageStop \in StreamEvents
      /\ \A r \in Strings : MessageDelta(r) \in StreamEvents
  BY EventTypes
<1>2. MessageStart.event = "message_start" /\ MessageStop.event = "message_stop"
  BY DEF MessageStart, MessageStop, Event
<1>3. EventToChunk(MessageStart) = <<>> /\ EventToChunk(MessageStop) = <<>>
  BY <1>2 DEF EventToChunk
<1>4. ASSUME NEW r \in Strings PROVE BackCalls[MessageDelta(r)] = <<>>
  <2>1. MessageDelta(r).event = "message_delta"
    BY DEF MessageDelta, Event
  <2>2. CASE MessageDelta(r).block.name = ""
    <3>1. EventToChunk(MessageDelta(r)) = <<>>
      BY <2>1, <2>2 DEF EventToChunk
    <3>2. QED
      BY <1>1, <3>1, SpreadNone DEF BackCalls
  <2>3. CASE MessageDelta(r).block.name # ""
    <3> DEFINE x == [Chunk(FALSE, <<>>, <<>>) EXCEPT
                        !.finish = IF MessageDelta(r).block.name = "tool_use"
                            THEN "tool_calls" ELSE "stop"]
    <3>1. EventToChunk(MessageDelta(r)) = <<x>>
      BY <2>1, <2>3 DEF EventToChunk
    <3>2. x \in Chunks
      <4>1. BackOf[MessageDelta(r)] = <<x>> /\ BackOf[MessageDelta(r)] \in Seq(Chunks)
        BY <1>1, <3>1, BackTypes DEF BackOf, Makers
      <4> HIDE DEF x
      <4>2. <<x>> \in Seq(Chunks) /\ Len(<<x>>) = 1 /\ <<x>>[1] = x
        BY <4>1
      <4>3. QED
        BY <4>2, ElementOfSeq
    <3>3. x.calls = <<>>
      BY DEF Chunk
    <3> HIDE DEF x
    <3>4. Spread(<<x>>, CallsIn) = <<>>
      BY <3>2, <3>3, CallsOfOne
    <3>5. QED
      BY <1>1, <3>1, <3>4 DEF BackCalls
  <2>4. QED
    BY <2>2, <2>3
<1>5. QED
  BY <1>1, <1>3, <1>4, SpreadNone DEF BackCalls

-----------------------------------------------------------------------------
(* What is read out of the events of an answer is the reply.               *)
Survived(r, cs, got, back) ==
    /\ Joined(Of("text", got)) = r.text
    /\ Of("tool_use", got) =
          [c \in DOMAIN r.calls |-> ToolUse(r.calls[c].id, r.calls[c].name,
              Passed(r.calls[c]))]
    /\ Accumulated(cs) = r.calls /\ Accumulated(back) = r.calls
    /\ {back[i].finish : i \in DOMAIN back} \ {""} = {Closing(r)[1].finish}

(* All that a whole answer of pieces says is read out of it.               *)
LEMMA Survives ==
    ASSUME NEW r, GoodReply(r), NEW sent, Whole(sent, r), NEW cs, cs = sent \o Closing(r)
    PROVE  Survived(r, cs, Gathered(Read(AnswerOf(cs))), Back(AnswerOf(cs)))
<1> DEFINE S == Spread(sent, Told)
           Q == EndOf(ReasonOf(r))
           H == <<MessageStart, MessageStart>>
           Z == <<MessageStop, MessageStop>>
           E == AnswerOf(cs)
           F == Spread(sent, CallsIn)
           SQ == S \o Q
           R == SQ \o Z
<1>1. AllPieces(sent, Len(r.calls)) /\ sent \in Seq(Chunks)
  BY DEF Whole, AllPieces
<1>2. cs \in Seq(Chunks) /\ E = H \o ((S \o Q) \o Z) /\ Read(E) = S \o Q
  BY <1>1, WholeAnswer
<1>3. ReasonOf(r) \in Strings /\ Closing(r)[1].finish = FinishOf(r)
  BY ClosingIs
<1>4. /\ Joined(Of("text", Gathered(S \o Q))) = r.text
      /\ Of("tool_use", Gathered(S \o Q)) =
             [c \in DOMAIN r.calls |->
                 ToolUse(r.calls[c].id, r.calls[c].name, Passed(r.calls[c]))]
  BY <1>3, WholeGathered
<1>5. /\ F \in Seq(Frags)
      /\ \A k \in DOMAIN F : F[k].index \in 1..Len(r.calls)
      /\ \A c \in 1..Len(r.calls) : Spread(F, Only(c)) = Fragments(c, r.calls[c])
  BY WholeFrags
<1>6. /\ MessageStart \in StreamEvents /\ MessageStop \in StreamEvents
      /\ MessageDelta(ReasonOf(r)) \in StreamEvents /\ MessageDelta("") \in StreamEvents
  BY <1>3, EventTypes, StringsAre
<1>7. /\ S \in Seq(StreamEvents) /\ Q \in Seq(StreamEvents)
      /\ H \in Seq(StreamEvents) /\ Z \in Seq(StreamEvents)
  BY <1>1, <1>6, OnlyBlocks, Singles DEF EndOf
<1>8. E \in Seq(StreamEvents) /\ S \o Q \in Seq(StreamEvents)
          /\ (S \o Q) \o Z \in Seq(StreamEvents)
  <2> HIDE DEF H, S, Q, Z, E
  <2>1. S \o Q \in Seq(StreamEvents)
    BY <1>7, ConcatProperties
  <2>2. (S \o Q) \o Z \in Seq(StreamEvents)
    BY <1>7, <2>1, ConcatProperties
  <2>3. QED
    BY <1>2, <1>7, <2>1, <2>2, ConcatProperties
<1>9. /\ H = <<MessageStart>> \o <<MessageStart>>
             /\ Z = <<MessageStop>> \o <<MessageStop>>
      /\ Q = <<MessageDelta(ReasonOf(r))>> \o <<MessageDelta("")>>
      /\ <<MessageStart>> \in Seq(StreamEvents) /\ <<MessageStop>> \in Seq(StreamEvents)
      /\ <<MessageDelta(ReasonOf(r))>> \in Seq(StreamEvents)
             /\ <<MessageDelta("")>> \in Seq(StreamEvents)
  BY <1>6, Singles DEF EndOf
<1>14. /\ SQ = S \o Q /\ R = SQ \o Z /\ SQ \in Seq(StreamEvents)
              /\ R \in Seq(StreamEvents)
       /\ E = H \o R /\ Read(E) = SQ
  BY <1>2, <1>8
<1> HIDE DEF S, Q, H, Z, E, SQ, R
<1>10. Accumulated(cs) = r.calls
  <2>1. Spread(cs, CallsIn) = F \o Spread(Closing(r), CallsIn)
    <3>1. Closing(r) \in Seq(Chunks)
      BY ClosingIs, Singles
    <3>2. CallsIn \in Makers(Chunks, Frags)
      BY ChunkFunctions
    <3>3. Spread(sent \o Closing(r), CallsIn)
              = Spread(sent, CallsIn) \o Spread(Closing(r), CallsIn)
      BY <1>1, <3>1, <3>2, SpreadConcat
    <3>4. QED
      BY <3>3
  <2>2. Spread(Closing(r), CallsIn) = <<>>
    <3>1. Closing(r) = <<Finish(r)>> \o <<Usage>> /\ <<Finish(r)>> \in Seq(Chunks)
              /\ <<Usage>> \in Seq(Chunks)
      BY ClosingIs, Singles
    <3>2. CallsIn \in Makers(Chunks, Frags)
      BY ChunkFunctions
    <3>3. Spread(Closing(r), CallsIn)
              = Spread(<<Finish(r)>>, CallsIn) \o Spread(<<Usage>>, CallsIn)
      BY <3>1, <3>2, SpreadConcat
    <3>4. Spread(<<Finish(r)>>, CallsIn) = <<>> /\ Spread(<<Usage>>, CallsIn) = <<>>
      BY ClosingIs, CallsOfOne
    <3>5. <<>> \o <<>> = <<>>
      BY EmptySeq, ConcatEmptySeq
    <3>6. QED
      BY <3>3, <3>4, <3>5
  <2>3. F \o <<>> = F
    BY <1>5, ConcatEmptySeq
  <2>4. Spread(cs, CallsIn) = F
    BY <2>1, <2>2, <2>3
  <2> HIDE DEF F
  <2>5. QED
    BY <1>2, <1>5, <2>4, AccumulatedIs
<1>11. Accumulated(Back(E)) = r.calls
  <2>1. BackCalls \in Makers(StreamEvents, Frags)
    BY BackTypes
  <2>2. Spread(H, BackCalls) = <<>>
    <3>1. \A i \in DOMAIN H : H[i] = MessageStart
      BY DEF H
    <3>2. QED
      BY <1>7, <2>1, <3>1, NoCallsBack, SpreadEmpty
  <2>3. Spread(Z, BackCalls) = <<>>
    <3>1. \A i \in DOMAIN Z : Z[i] = MessageStop
      BY DEF Z
    <3>2. QED
      BY <1>7, <2>1, <3>1, NoCallsBack, SpreadEmpty
  <2>4. Spread(SQ, BackCalls) = F
    <3>1. \A i \in DOMAIN sent : CallsIn[sent[i]] = Spread(Told[sent[i]], BackCalls)
      BY <1>1, PieceReads DEF AllPieces
    <3>2. \A i \in DOMAIN Q : BackCalls[Q[i]] = <<>>
      <4>1. Range(Q) = Range(<<MessageDelta(ReasonOf(r))>>) \cup Range(<<MessageDelta("")>>)
        BY <1>9, RangeConcat
      <4>2. \A x : \A y \in Range(<<x>>) : y = x
        BY DEF Range
      <4>3. \A i \in DOMAIN Q : Q[i] = MessageDelta(ReasonOf(r))
                \/ Q[i] = MessageDelta("")
        <5>1. \A i \in DOMAIN Q : Q[i] \in Range(Q)
          BY DEF Range
        <5>2. QED
          BY <4>1, <4>2, <5>1
      <4>4. QED
        BY <1>3, <4>3, StringsAre, NoCallsBack
    <3>3. CallsIn \in Makers(Chunks, Frags)
      BY ChunkFunctions
    <3>4. QED
      BY <1>1, <1>7, <2>1, <3>1, <3>2, <3>3, ReadThrough DEF S, SQ
  <2>5. Spread(R, BackCalls) = F \o <<>>
    <3>1. SQ \in Seq(StreamEvents) /\ Z \in Seq(StreamEvents)
      BY <1>7, <1>14
    <3>2. Spread(SQ \o Z, BackCalls) = Spread(SQ, BackCalls) \o Spread(Z, BackCalls)
      BY <2>1, <3>1, SpreadConcat
    <3>3. QED
      BY <1>14, <2>3, <2>4, <3>2
  <2>6. Spread(E, BackCalls) = <<>> \o (F \o <<>>)
    <3>1. H \in Seq(StreamEvents) /\ R \in Seq(StreamEvents)
      BY <1>7, <1>14
    <3>2. Spread(H \o R, BackCalls) = Spread(H, BackCalls) \o Spread(R, BackCalls)
      BY <2>1, <3>1, SpreadConcat
    <3>3. QED
      BY <1>14, <2>2, <2>5, <3>2
  <2>7. <<>> \o (F \o <<>>) = F
    BY <1>5, ConcatEmptySeq
  <2>8. Spread(Back(E), CallsIn) = F /\ Back(E) \in Seq(Chunks)
    BY <1>8, <2>6, <2>7, BackIs
  <2> HIDE DEF F
  <2>9. QED
    BY <1>5, <2>8, AccumulatedIs
<1>12. {Back(E)[i].finish : i \in DOMAIN Back(E)} \ {""} = {FinishOf(r)}
  <2>1. Range(E) = Range(H) \cup ((Range(S) \cup Range(Q)) \cup Range(Z))
    <3>1. H \in Seq(StreamEvents) /\ R \in Seq(StreamEvents)
      BY <1>7, <1>14
    <3>2. Range(H \o R) = Range(H) \cup Range(R)
      BY <3>1, RangeConcat
    <3>3. SQ \in Seq(StreamEvents) /\ Z \in Seq(StreamEvents)
      BY <1>7, <1>14
    <3>4. Range(SQ \o Z) = Range(SQ) \cup Range(Z)
      BY <3>3, RangeConcat
    <3>5. S \in Seq(StreamEvents) /\ Q \in Seq(StreamEvents)
      BY <1>7
    <3>6. Range(S \o Q) = Range(S) \cup Range(Q)
      BY <3>5, RangeConcat
    <3>7. QED
      BY <1>14, <3>2, <3>4, <3>6
  <2>2. /\ \A i \in DOMAIN Back(E) : \E j \in DOMAIN E : \E k \in DOMAIN BackOf[E[j]] :
               Back(E)[i] = BackOf[E[j]][k]
        /\ \A j \in DOMAIN E : \A k \in DOMAIN BackOf[E[j]] :
              \E i \in DOMAIN Back(E) : Back(E)[i] = BackOf[E[j]][k]
    <3>1. Back(E) = Spread(E, BackOf) /\ BackOf \in Makers(StreamEvents, Chunks)
      BY <1>8, BackIs, BackTypes
    <3>2. \A i \in DOMAIN Spread(E, BackOf) :
             \E j \in DOMAIN E : \E k \in DOMAIN BackOf[E[j]] :
                 Spread(E, BackOf)[i] = BackOf[E[j]][k]
      BY <1>8, <3>1, SpreadFrom
    <3>3. ASSUME NEW j \in DOMAIN E, NEW k \in DOMAIN BackOf[E[j]]
          PROVE  \E i \in DOMAIN Spread(E, BackOf) :
                     Spread(E, BackOf)[i] = BackOf[E[j]][k]
      BY <1>8, <3>1, SpreadTo
    <3>4. QED
      BY <3>1, <3>2, <3>3
  <2>3. \A x : Range(<<x>>) = {x}
    BY DEF Range
  <2>4. Range(H) = {MessageStart} /\ Range(Z) = {MessageStop}
        /\ Range(Q) = {MessageDelta(ReasonOf(r)), MessageDelta("")}
    <3> DEFINE a == <<MessageStart>>
               b == <<MessageStop>>
               c == <<MessageDelta(ReasonOf(r))>>
               d == <<MessageDelta("")>>
    <3>1. /\ a \in Seq(StreamEvents) /\ b \in Seq(StreamEvents)
          /\ c \in Seq(StreamEvents) /\ d \in Seq(StreamEvents)
      BY <1>9
    <3>2. /\ Range(a) = {MessageStart} /\ Range(b) = {MessageStop}
          /\ Range(c) = {MessageDelta(ReasonOf(r))} /\ Range(d) = {MessageDelta("")}
      BY <2>3
    <3>3. H = a \o a /\ Z = b \o b /\ Q = c \o d
      BY <1>9
    <3> HIDE DEF a, b, c, d
    <3>4. Range(a \o a) = Range(a) \cup Range(a)
      BY <3>1, RangeConcat
    <3>5. Range(b \o b) = Range(b) \cup Range(b)
      BY <3>1, RangeConcat
    <3>6. Range(c \o d) = Range(c) \cup Range(d)
      BY <3>1, RangeConcat
    <3>7. QED
      BY <3>2, <3>3, <3>4, <3>5, <3>6
  <2>5. \A e \in Range(S) : e.event \in {"content_block_start", "content_block_delta"}
    BY <1>1, OnlyBlocks DEF Range, S
  <2>6. \A e \in Range(E) : e.event = "message_delta" /\ e.block.name # ""
            => e = MessageDelta(ReasonOf(r))
    <3>1. MessageStart.event = "message_start" /\ MessageStop.event = "message_stop"
      BY DEF MessageStart, MessageStop, Event
    <3>2. MessageDelta("").block.name = ""
      BY DEF MessageDelta, Event, NoBlock, Block
    <3>3. QED
      BY <2>1, <2>4, <2>5, <3>1, <3>2
  <2>7. /\ MessageDelta(ReasonOf(r)) \in Range(E)
               /\ MessageDelta(ReasonOf(r)).event = "message_delta"
        /\ MessageDelta(ReasonOf(r)).block.name = ReasonOf(r)
    <3>1. MessageDelta(ReasonOf(r)).event = "message_delta"
              /\ MessageDelta(ReasonOf(r)).block.name = ReasonOf(r)
      BY DEF MessageDelta, Event, NoBlock, Block
    <3>2. QED
      BY <2>1, <2>4, <3>1
  <2>8. (IF ReasonOf(r) = "tool_use" THEN "tool_calls" ELSE "stop") = FinishOf(r)
            /\ FinishOf(r) # "" /\ ReasonOf(r) # ""
    BY DEF ReasonOf, FinishOf
  <2>9. ASSUME NEW i \in DOMAIN Back(E),
                   Back(E)[i].finish # "" PROVE Back(E)[i].finish = FinishOf(r)
    <3>1. PICK j \in DOMAIN E : \E k \in DOMAIN BackOf[E[j]] :
              Back(E)[i] = BackOf[E[j]][k]
      BY <2>2
    <3>2. PICK k \in DOMAIN BackOf[E[j]] : Back(E)[i] = BackOf[E[j]][k]
      BY <3>1
    <3>3. E[j] \in StreamEvents /\ E[j] \in Range(E)
      BY <1>8, LenProperties, ElementOfSeq DEF Range
    <3>4. BackOf[E[j]][k].finish = IF E[j].event = "message_delta" /\ E[j].block.name # ""
               THEN (IF E[j].block.name = "tool_use" THEN "tool_calls" ELSE "stop")
                   ELSE ""
      BY <3>3, BackTypes
    <3>5. E[j] = MessageDelta(ReasonOf(r))
      BY <2>6, <2>9, <3>2, <3>3, <3>4
    <3>6. QED
      BY <2>7, <2>8, <3>2, <3>4, <3>5
  <2>10. \E i \in DOMAIN Back(E) : Back(E)[i].finish = FinishOf(r)
    <3>1. PICK j \in DOMAIN E : E[j] = MessageDelta(ReasonOf(r))
      BY <2>7 DEF Range
    <3> DEFINE e == MessageDelta(ReasonOf(r))
               x == [Chunk(FALSE, <<>>, <<>>) EXCEPT
                        !.finish = IF e.block.name = "tool_use" THEN "tool_calls"
                            ELSE "stop"]
    <3>2. EventToChunk(e) = <<x>>
      BY <2>7, <2>8 DEF EventToChunk
    <3>3. BackOf[e] = EventToChunk(e)
      BY <1>6 DEF BackOf
    <3> HIDE DEF e, x
    <3>4. 1 \in DOMAIN BackOf[E[j]]
      <4>1. 1 \in DOMAIN <<x>>
        OBVIOUS
      <4>2. QED
        BY <3>1, <3>2, <3>3, <4>1 DEF e
    <3>5. BackOf[E[j]][1].finish = FinishOf(r)
      BY <1>6, <2>7, <2>8, <3>1, <3>4, BackTypes
    <3>6. QED
      BY <2>2, <3>4, <3>5
  <2>11. QED
    BY <2>8, <2>9, <2>10
<1>13. QED
  BY <1>2, <1>3, <1>4, <1>10, <1>11, <1>12 DEF E, Survived

-----------------------------------------------------------------------------
(* The upstream's stream, chunk by chunk.                                  *)
LEMMA MoveOne ==
    ASSUME NEW S, NEW a \in Seq(S), NEW s \in Seq(S), s # <<>>
    PROVE  /\ Head(s) \in S /\ Tail(s) \in Seq(S) /\ <<Head(s)>> \in Seq(S)
           /\ (a \o <<Head(s)>>) \o Tail(s) = a \o s
           /\ Head(s) = s[1] /\ 1 \in DOMAIN s
           /\ \A k \in DOMAIN Tail(s) : k + 1 \in DOMAIN s /\ Tail(s)[k] = s[k + 1]
<1>1. /\ Tail(s) \in Seq(S) /\ Len(Tail(s)) = Len(s) - 1 /\ Head(s) = s[1]
      /\ \A i \in 1..Len(Tail(s)) : Tail(s)[i] = s[i + 1]
  BY HeadTailProperties
<1>2. s = <<s[1]>> \o SubSeq(s, 2, Len(s)) /\ SubSeq(s, 2, Len(s)) \in Seq(S)
          /\ s[1] \in S
  BY HeadAndRest
<1>3. Len(s) \in Nat \ {0} /\ DOMAIN s = 1..Len(s) /\ DOMAIN Tail(s) = 1..Len(Tail(s))
  BY <1>1, EmptySeq, LenProperties
<1>4. Tail(s) = SubSeq(s, 2, Len(s))
  BY TailIsSubSeq
<1>5. <<s[1]>> \in Seq(S)
  BY <1>2, OneOrTwo
<1> DEFINE h == <<s[1]>>
           t == SubSeq(s, 2, Len(s))
<1>6. h \in Seq(S) /\ t \in Seq(S)
  BY <1>2, <1>5
<1> HIDE DEF h, t
<1>7. (a \o h) \o t = a \o (h \o t)
  BY <1>6, ConcatAssociative
<1>8. (a \o <<Head(s)>>) \o Tail(s) = a \o s
  BY <1>1, <1>2, <1>4, <1>7 DEF h, t
<1>9. ASSUME NEW k \in DOMAIN Tail(s) PROVE k + 1 \in DOMAIN s /\ Tail(s)[k] = s[k + 1]
  BY <1>1, <1>3
<1>10. QED
  BY <1>1, <1>2, <1>3, <1>5, <1>8, <1>9

(* The replies of the upstream are what the assumption says.               *)
LEMMA GoodReplies ==
    ASSUME NEW r \in Replies
    PROVE  GoodReply(r) /\ r.calls \in Seq(WireCalls) /\ r.text \in Words
               /\ Len(r.calls) \in Nat
<1>1. r.text \in Seq(STRING) /\ r.calls \in Seq(NamedCalls)
  BY SessionReplyAssumption
<1>2. STRING \subseteq Strings /\ \A n : Seq(STRING) \subseteq Words
  <2>1. STRING \subseteq Strings
    BY StringsAre
  <2>2. \A s \in Seq(STRING) : s \in Words
    BY <2>1, SeqMonotonic DEF Words
  <2>3. QED
    BY <2>1, <2>2
<1>3. NamedCalls \subseteq WireCalls
  BY <1>2 DEF NamedCalls, WireCalls
<1>4. r.calls \in Seq(WireCalls)
  BY <1>1, <1>3, SeqMonotonic
<1>5. \A c \in DOMAIN r.calls : r.calls[c] \in NamedCalls
  BY <1>1, LenProperties, ElementOfSeq
<1>6. \A call \in NamedCalls : NamedCall(call)
  BY <1>3 DEF NamedCall, NamedCalls
<1>7. QED
  BY <1>1, <1>2, <1>4, <1>5, <1>6, LenProperties DEF GoodReply

(* What came and what is still to come are the reply.                      *)
Halfway(cs, queues, r) ==
    /\ AllPieces(cs, Len(r.calls))
    /\ queues = [c \in 0..Len(r.calls) |-> queues[c]]
    /\ queues[0] \in Words /\ Spread(cs, SaidIn) \o queues[0] = r.text
    /\ \A c \in 1..Len(r.calls) :
          /\ queues[c] \in Seq(Frags)
          /\ \A k \in DOMAIN queues[c] : queues[c][k].index = c /\ GoodFrag(queues[c][k])
          /\ Spread(cs, FragsOf(c)) \o queues[c] = Fragments(c, r.calls[c])

(* Nothing has been sent in the beginning,                                 *)
LEMMA HalfwayStarts ==
    ASSUME NEW r, GoodReply(r)
    PROVE  Halfway(<<>>, Pieces(r), r)
<1>1. Len(r.calls) \in Nat /\ DOMAIN r.calls = 1..Len(r.calls) /\ r.text \in Words
  BY LenProperties DEF GoodReply
<1>2. /\ Pieces(r) = [c \in 0..Len(r.calls) |-> Pieces(r)[c]]
      /\ Pieces(r)[0] = r.text
      /\ \A c \in 1..Len(r.calls) : Pieces(r)[c] = Fragments(c, r.calls[c])
  BY <1>1 DEF Pieces
<1>3. AllPieces(<<>>, Len(r.calls))
  BY EmptySeq DEF AllPieces
<1>4. Spread(<<>>, SaidIn) \o r.text = r.text
  BY <1>1, SpreadNone, ConcatEmptySeq DEF Words
<1>5. ASSUME NEW c \in 1..Len(r.calls)
      PROVE  /\ Pieces(r)[c] \in Seq(Frags)
             /\ \A k \in DOMAIN Pieces(r)[c] : Pieces(r)[c][k].index = c
                    /\ GoodFrag(Pieces(r)[c][k])
             /\ Spread(<<>>, FragsOf(c)) \o Pieces(r)[c] = Fragments(c, r.calls[c])
  <2>1. c \in Nat /\ NamedCall(r.calls[c])
    BY <1>1 DEF GoodReply
  <2>2. /\ Fragments(c, r.calls[c]) \in Seq(Frags)
        /\ \A k \in DOMAIN Fragments(c, r.calls[c]) :
              Fragments(c, r.calls[c])[k].index = c
                  /\ GoodFrag(Fragments(c, r.calls[c])[k])
    BY <2>1, FragmentsAre
  <2>3. Spread(<<>>, FragsOf(c)) \o Fragments(c, r.calls[c]) = Fragments(c, r.calls[c])
    BY <2>2, SpreadNone, ConcatEmptySeq
  <2>4. QED
    BY <1>2, <2>2, <2>3
<1>6. QED
  BY <1>1, <1>2, <1>3, <1>4, <1>5 DEF Halfway

(* A chunk is moved from its queue to what came.                           *)
LEMMA HalfwayGoesOn ==
    ASSUME NEW r, GoodReply(r), NEW cs, NEW queues, Halfway(cs, queues, r),
           NEW c \in 0..Len(r.calls), queues[c] # <<>>, NEW x \in ChunksFrom(r, queues, c)
    PROVE  Halfway(Append(cs, x), Sent(queues, c), r)
<1> DEFINE n == Len(r.calls)
           q == Sent(queues, c)
<1>1. n \in Nat /\ cs \in Seq(Chunks) /\ AllPieces(cs, n)
  BY LenProperties DEF GoodReply, Halfway, AllPieces
<1>2. /\ q = [d \in 0..n |-> q[d]] /\ q[c] = Tail(queues[c])
      /\ \A d \in 0..n : d # c => q[d] = queues[d]
  <2>1. DOMAIN queues = 0..n
    BY DEF Halfway
  <2>2. QED
    BY <2>1 DEF Sent
<1>3. SaidIn \in Makers(Chunks, Strings) /\ \A d : FragsOf(d) \in Makers(Chunks, Frags)
  BY ChunkFunctions
<1> HIDE DEF q
<1>4. ASSUME NEW y \in Chunks, Piece(y), \A k \in DOMAIN y.calls :
                 y.calls[k].index \in 1..n
      PROVE  AllPieces(Append(cs, y), n)
  <2>1. /\ Append(cs, y) \in Seq(Chunks) /\ Len(Append(cs, y)) = Len(cs) + 1
        /\ \A i \in 1..Len(cs) : Append(cs, y)[i] = cs[i]
        /\ Append(cs, y)[Len(cs) + 1] = y
    BY <1>1, AppendProperties
  <2>2. Len(cs) \in Nat /\ DOMAIN cs = 1..Len(cs)
            /\ DOMAIN Append(cs, y) = 1..Len(Append(cs, y))
    BY <1>1, <2>1, LenProperties
  <2>3. \A i \in DOMAIN Append(cs, y) : i \in 1..Len(cs) \/ i = Len(cs) + 1
    BY <2>1, <2>2
  <2>4. QED
    BY <1>1, <1>4, <2>1, <2>2, <2>3 DEF AllPieces
<1>5. CASE c = 0
  <2> DEFINE h == <<Head(queues[0])>>
  <2>1. queues[0] \in Words /\ queues[0] # <<>>
            /\ Spread(cs, SaidIn) \o queues[0] = r.text
    BY <1>5 DEF Halfway
  <2>2. Spread(cs, SaidIn) \in Words
    BY <1>1, <1>3, SpreadType DEF Words
  <2>3. /\ h \in Words /\ Tail(queues[0]) \in Words
        /\ (Spread(cs, SaidIn) \o h) \o Tail(queues[0]) = Spread(cs, SaidIn) \o queues[0]
    <3> DEFINE a == Spread(cs, SaidIn)
               t == queues[0]
    <3>1. a \in Seq(Strings) /\ t \in Seq(Strings) /\ t # <<>>
      BY <2>1, <2>2 DEF Words
    <3> HIDE DEF a, t
    <3>2. Tail(t) \in Seq(Strings) /\ <<Head(t)>> \in Seq(Strings)
              /\ (a \o <<Head(t)>>) \o Tail(t) = a \o t
      BY <3>1, MoveOne
    <3>3. QED
      BY <3>2 DEF a, t, Words
  <2>4. \E b \in BOOLEAN : x = Chunk(b, h, <<>>)
    BY <1>5 DEF ChunksFrom
  <2> HIDE DEF h
  <2>5. x \in Chunks /\ ~x.usage /\ x.finish = "" /\ x.calls = <<>> /\ x.text = h
    <3>1. <<>> \in Seq(Frags) /\ "" \in Strings
      BY EmptySeq, StringsAre
    <3>2. \A b \in BOOLEAN : LET y == Chunk(b, h, <<>>)
             IN y \in Chunks /\ y.usage = FALSE /\ y.finish = "" /\ y.calls = <<>>
                    /\ y.text = h
      BY <2>3, <3>1 DEF Chunk, Chunks
    <3>3. QED
      BY <2>4, <3>2
  <2>6. AllPieces(Append(cs, x), n)
    <3>1. Piece(x)
      BY <2>5 DEF Piece
    <3>2. DOMAIN <<>> = {}
      BY EmptySeq
    <3>3. QED
      BY <1>4, <2>5, <3>1, <3>2
  <2>7. Spread(Append(cs, x), SaidIn) = Spread(cs, SaidIn) \o h
    <3>1. SaidIn[x] = h
      BY <2>5 DEF SaidIn
    <3>2. QED
      BY <1>1, <1>3, <2>5, <3>1, SpreadAppend
  <2>8. ASSUME NEW d \in 1..n PROVE Spread(Append(cs, x), FragsOf(d))
                   = Spread(cs, FragsOf(d)) /\ q[d] = queues[d]
    <3>1. FragsOf(d)[x] = <<>>
      BY <2>5, FragsOfOne
    <3>2. Spread(Append(cs, x), FragsOf(d)) = Spread(cs, FragsOf(d)) \o <<>>
      <4>1. FragsOf(d) \in Makers(Chunks, Frags)
        BY <1>3
      <4>2. Spread(Append(cs, x), FragsOf(d)) = Spread(cs, FragsOf(d)) \o FragsOf(d)[x]
        BY <1>1, <2>5, <4>1, SpreadAppend
      <4>3. QED
        BY <3>1, <4>2
    <3>3. Spread(cs, FragsOf(d)) \in Seq(Frags)
      BY <1>1, <1>3, SpreadType
    <3>4. d \in 0..n /\ d # c
      BY <1>1, <1>5
    <3>5. QED
      BY <1>2, <3>2, <3>3, <3>4, ConcatEmptySeq
  <2>9. q[0] \in Words /\ Spread(Append(cs, x), SaidIn) \o q[0] = r.text
    BY <1>2, <1>5, <2>1, <2>3, <2>7
  <2>10. QED
    BY <1>2, <2>6, <2>8, <2>9 DEF Halfway, q
<1>6. CASE c # 0
  <2> DEFINE f == Head(queues[c])
  <2>1. c \in 1..n /\ 0 \in 0..n
    BY <1>1, <1>6
  <2>2. /\ queues[c] \in Seq(Frags)
        /\ \A k \in DOMAIN queues[c] : queues[c][k].index = c /\ GoodFrag(queues[c][k])
        /\ Spread(cs, FragsOf(c)) \o queues[c] = Fragments(c, r.calls[c])
    BY <2>1 DEF Halfway
  <2>3. Spread(cs, FragsOf(c)) \in Seq(Frags)
    BY <1>1, <1>3, SpreadType
  <2>4. /\ f \in Frags /\ Tail(queues[c]) \in Seq(Frags) /\ <<f>> \in Seq(Frags)
        /\ (Spread(cs, FragsOf(c)) \o <<f>>) \o Tail(queues[c])
               = Spread(cs, FragsOf(c)) \o queues[c]
        /\ f = queues[c][1] /\ 1 \in DOMAIN queues[c]
        /\ \A k \in DOMAIN Tail(queues[c]) : k + 1 \in DOMAIN queues[c]
               /\ Tail(queues[c])[k] = queues[c][k + 1]
    <3> DEFINE a == Spread(cs, FragsOf(c))
               t == queues[c]
    <3>1. a \in Seq(Frags) /\ t \in Seq(Frags) /\ t # <<>>
      BY <2>2, <2>3
    <3> HIDE DEF a, t
    <3>2. /\ Head(t) \in Frags /\ Tail(t) \in Seq(Frags) /\ <<Head(t)>> \in Seq(Frags)
          /\ (a \o <<Head(t)>>) \o Tail(t) = a \o t
          /\ Head(t) = t[1] /\ 1 \in DOMAIN t
          /\ \A k \in DOMAIN Tail(t) : k + 1 \in DOMAIN t /\ Tail(t)[k] = t[k + 1]
      BY <3>1, MoveOne
    <3>3. QED
      BY <3>2 DEF a, t
  <2>5. f.index = c /\ GoodFrag(f)
    BY <2>2, <2>4
  <2>6. x = Chunk(FALSE, <<>>, <<f>>)
    BY <1>6 DEF ChunksFrom
  <2> HIDE DEF f
  <2>7. x \in Chunks /\ ~x.usage /\ x.finish = "" /\ x.calls = <<f>> /\ x.text = <<>>
    <3>1. <<>> \in Words /\ "" \in Strings
      BY NoIdIsId, StringsAre
    <3>2. QED
      BY <2>4, <2>6, <3>1 DEF Chunk, Chunks
  <2>8. AllPieces(Append(cs, x), n)
    <3>1. Piece(x)
      BY <2>4, <2>5, <2>7 DEF Piece
    <3>2. \A k \in DOMAIN <<f>> : <<f>>[k] = f
      OBVIOUS
    <3>3. \A k \in DOMAIN x.calls : x.calls[k].index \in 1..n
      BY <2>1, <2>5, <2>7, <3>2
    <3>4. QED
      BY <1>4, <2>7, <3>1, <3>3
  <2>9. Spread(Append(cs, x), SaidIn) = Spread(cs, SaidIn)
    <3>1. SaidIn[x] = <<>>
      BY <2>7 DEF SaidIn
    <3>2. Spread(Append(cs, x), SaidIn) = Spread(cs, SaidIn) \o <<>>
      BY <1>1, <1>3, <2>7, <3>1, SpreadAppend
    <3>3. Spread(cs, SaidIn) \in Seq(Strings)
      BY <1>1, <1>3, SpreadType
    <3>4. QED
      BY <3>2, <3>3, ConcatEmptySeq
  <2>10. ASSUME NEW d \in 1..n
         PROVE  /\ q[d] \in Seq(Frags)
                /\ \A k \in DOMAIN q[d] : q[d][k].index = d /\ GoodFrag(q[d][k])
                /\ Spread(Append(cs, x), FragsOf(d)) \o q[d] = Fragments(d, r.calls[d])
    <3>1. FragsOf(d)[x] = Only(d)[f]
      BY <2>4, <2>7, FragsOfOne
    <3>2. Only(d)[f] = IF f.index = d THEN <<f>> ELSE <<>>
      BY <2>4 DEF Only
    <3>3. Spread(Append(cs, x), FragsOf(d))
              = Spread(cs, FragsOf(d)) \o (IF d = c THEN <<f>> ELSE <<>>)
      <4>1. FragsOf(d) \in Makers(Chunks, Frags)
        BY <1>3
      <4>2. Spread(Append(cs, x), FragsOf(d)) = Spread(cs, FragsOf(d)) \o FragsOf(d)[x]
        BY <1>1, <2>7, <4>1, SpreadAppend
      <4>3. QED
        BY <2>5, <3>1, <3>2, <4>2
    <3>4. CASE d = c
      <4>1. q[d] = Tail(queues[c])
        BY <1>2, <3>4
      <4>2. Spread(Append(cs, x), FragsOf(d)) \o q[d] = Fragments(d, r.calls[d])
        BY <2>2, <2>4, <3>3, <3>4, <4>1
      <4>3. \A k \in DOMAIN q[d] : q[d][k].index = d /\ GoodFrag(q[d][k])
        BY <2>2, <2>4, <3>4, <4>1
      <4>4. QED
        BY <2>4, <4>1, <4>2, <4>3
    <3>5. CASE d # c
      <4>1. d \in 0..n
        BY <1>1
      <4>2. q[d] = queues[d]
        BY <1>2, <3>5, <4>1
      <4>3. Spread(cs, FragsOf(d)) \in Seq(Frags)
        BY <1>1, <1>3, SpreadType
      <4>4. Spread(Append(cs, x), FragsOf(d)) = Spread(cs, FragsOf(d))
        BY <3>3, <3>5, <4>3, ConcatEmptySeq
      <4>5. QED
        BY <4>2, <4>4 DEF Halfway
    <3>6. QED
      BY <3>4, <3>5
  <2>11. q[0] = queues[0]
    BY <1>2, <1>6, <2>1
  <2>12. QED
    BY <1>2, <2>8, <2>9, <2>10, <2>11 DEF Halfway, q
<1>7. QED
  BY <1>5, <1>6

(* and all when nothing is left.                                           *)
LEMMA HalfwayEnds ==
    ASSUME NEW r, GoodReply(r), NEW cs, NEW queues, Halfway(cs, queues, r),
               AllSent(queues)
    PROVE  Whole(cs, r)
<1>1. Len(r.calls) \in Nat /\ cs \in Seq(Chunks) /\ AllPieces(cs, Len(r.calls))
  BY LenProperties DEF GoodReply, Halfway, AllPieces
<1>2. \A c \in 0..Len(r.calls) : queues[c] = <<>>
  BY DEF Halfway, AllSent
<1>3. /\ SaidIn \in Makers(Chunks, Strings) /\ Spread(cs, SaidIn) \in Seq(Strings)
      /\ \A d : Spread(cs, FragsOf(d)) \in Seq(Frags)
  <2>1. SaidIn \in Makers(Chunks, Strings) /\ \A d : FragsOf(d) \in Makers(Chunks, Frags)
    BY ChunkFunctions
  <2>2. QED
    BY <1>1, <2>1, SpreadType
<1>4. Spread(cs, SaidIn) = r.text
  <2>1. 0 \in 0..Len(r.calls)
    BY <1>1
  <2>2. Spread(cs, SaidIn) \o <<>> = r.text
    BY <1>2, <2>1 DEF Halfway
  <2>3. QED
    BY <1>3, <2>2, ConcatEmptySeq
<1>5. ASSUME NEW c \in 1..Len(r.calls) PROVE Spread(cs, FragsOf(c))
                 = Fragments(c, r.calls[c])
  <2>1. c \in 0..Len(r.calls)
    BY <1>1
  <2>2. Spread(cs, FragsOf(c)) \o <<>> = Fragments(c, r.calls[c])
    BY <1>2, <2>1 DEF Halfway
  <2>3. QED
    BY <1>3, <2>2, ConcatEmptySeq
<1>6. QED
  BY <1>1, <1>4, <1>5 DEF Whole

-----------------------------------------------------------------------------
(* The stream under way.                                                   *)
StreamInv ==
    /\ pc = "upstream" => reply \in Replies /\ broken = FALSE
           /\ Halfway(chunks, left, reply)
    /\ pc = "answering" =>
          /\ reply \in Replies
          /\ broken => AllPieces(chunks, Len(reply.calls))
          /\ ~broken => \E sent : Whole(sent, reply) /\ chunks = sent \o Closing(reply)

(* The invariant of the stream in the first state,                         *)
LEMMA StreamInit == SessionInit => StreamInv
BY DEF SessionInit, StreamInv

(* in every step,                                                          *)
LEMMA StreamStep == StreamInv /\ [SessionNext]_sessionVars => StreamInv'
<1> SUFFICES ASSUME StreamInv, [SessionNext]_sessionVars PROVE StreamInv'
  OBVIOUS
<1>1. CASE Post
  <2>1. PICK r \in Replies : reply' = r /\ left' = Pieces(r)
    BY <1>1 DEF Post
  <2>2. Halfway(<<>>, Pieces(r), r)
    BY GoodReplies, HalfwayStarts
  <2>3. chunks' = <<>> /\ broken' = FALSE /\ pc' = "upstream"
    BY <1>1 DEF Post
  <2>4. QED
    BY <2>1, <2>2, <2>3 DEF StreamInv
<1>2. CASE NextChunk
  <2>1. pc = "upstream" /\ pc' = pc /\ reply' = reply /\ broken' = broken
    BY <1>2 DEF NextChunk
  <2>2. PICK c \in DOMAIN left : /\ left[c] # <<>>
                                 /\ \E x \in ChunksFrom(reply, left, c) :
                                        chunks' = Append(chunks, x)
                                 /\ left' = Sent(left, c)
    BY <1>2 DEF NextChunk
  <2>3. PICK x \in ChunksFrom(reply, left, c) : chunks' = Append(chunks, x)
    BY <2>2
  <2>4. reply \in Replies /\ broken = FALSE /\ Halfway(chunks, left, reply)
    BY <2>1 DEF StreamInv
  <2>5. c \in 0..Len(reply.calls)
    BY <2>4 DEF Halfway
  <2>6. GoodReply(reply)
    BY <2>4, GoodReplies
  <2>7. Halfway(Append(chunks, x), Sent(left, c), reply)
    BY <2>2, <2>4, <2>5, <2>6, HalfwayGoesOn
  <2>8. QED
    BY <2>1, <2>2, <2>3, <2>4, <2>7 DEF StreamInv
<1>3. CASE UpstreamEnds
  <2>1. /\ pc = "upstream" /\ AllSent(left) /\ chunks' = chunks \o Closing(reply)
        /\ pc' = "answering" /\ reply' = reply /\ broken' = broken
    BY <1>3 DEF UpstreamEnds
  <2>2. reply \in Replies /\ broken = FALSE /\ Halfway(chunks, left, reply)
    BY <2>1 DEF StreamInv
  <2>3. Whole(chunks, reply)
    BY <2>1, <2>2, GoodReplies, HalfwayEnds
  <2>4. QED
    BY <2>1, <2>2, <2>3 DEF StreamInv
<1>4. CASE UpstreamFails
  <2>1. pc = "upstream" /\ reply' = reply /\ chunks' = chunks
        /\ (pc' = "asking" \/ (pc' = "answering" /\ broken' = TRUE))
    BY <1>4 DEF UpstreamFails
  <2>2. QED
    BY <2>1 DEF StreamInv, Halfway
<1>5. CASE Deliver
  <2>1. pc' = "asking" \/ pc' = "answered"
    BY <1>5 DEF Deliver
  <2>2. QED
    BY <2>1 DEF StreamInv
<1>6. CASE GoOn \/ EndSession \/ TraceConvert
  BY <1>6 DEF GoOn, EndSession, TraceConvert, StreamInv
<1>7. CASE Ended \/ UNCHANGED sessionVars
  BY <1>7 DEF Ended, sessionVars, StreamInv
<1>8. QED
  BY <1>1, <1>2, <1>3, <1>4, <1>5, <1>6, <1>7 DEF SessionNext

(* and what it says of an answer.                                          *)
LEMMA StreamSurvives == StreamInv => AnswersSurvive
<1>1. CASE pc = "answering" /\ ~broken
  <2>1. ASSUME StreamInv PROVE Survived(reply, chunks, Gathered(Read(Events)),
                   Back(Events))
    <3>1. reply \in Replies /\ GoodReply(reply)
      BY <1>1, <2>1, GoodReplies DEF StreamInv
    <3>2. PICK sent : Whole(sent, reply) /\ chunks = sent \o Closing(reply)
      BY <1>1, <2>1 DEF StreamInv
    <3>3. Events = AnswerOf(chunks)
      BY DEF Events, AnswerOf, Body
    <3>4. QED
      BY <3>1, <3>2, <3>3, Survives
  <2>2. Survived(reply, chunks, Gathered(Read(Events)), Back(Events)) => AnswersSurvive
    BY DEF Survived, Passed, Back, AnswersSurvive
  <2>3. QED
    BY <2>1, <2>2
<1>2. CASE ~(pc = "answering" /\ ~broken)
  BY <1>2 DEF AnswersSurvive
<1>3. QED
  BY <1>1, <1>2

(* Every whole answer survives the translations: the agent reads what the  *)
(* upstream said, for every reply and every order of its pieces.           *)
THEOREM AnswersAreWhole == SessionSpec => []AnswersSurvive
<1>1. SessionSpec => []StreamInv
  BY StreamInit, StreamStep, PTL DEF SessionSpec
<1>2. QED
  BY <1>1, StreamSurvives, PTL

-----------------------------------------------------------------------------
(* The turns of the conversation.                                          *)
TurnSet == [role : Strings, blocks : Seq(Blocks)]

Uses(uses) ==
    /\ uses \in Seq(Blocks)
    /\ \A i \in DOMAIN uses : /\ uses[i].type = "tool_use"
                              /\ uses[i].text = IF Parses(uses[i].text) THEN uses[i].text
                                     ELSE <<>>

AnswerTurn(m, t, uses) ==
    m = [role |-> "assistant", blocks |-> Spoken(t) \o uses] /\ t \in Words /\ Uses(uses)

Given(results) ==
    /\ results \in Seq(Blocks)
    /\ \A i \in DOMAIN results : results[i].type = "tool_result"
           /\ results[i].name = NoName

AskTurn(m, results, t) ==
    m = [role |-> "user", blocks |-> results \o Spoken(t)] /\ t \in Words
        /\ Given(results)

(* What was gathered is a turn of an assistant, whatever was read.         *)
LEMMA GatheredTurn ==
    ASSUME NEW evs \in Seq(StreamEvents)
    PROVE  \E t, uses : AnswerTurn([role |-> "assistant", blocks |-> Gathered(evs)], t,
               uses)
<1> DEFINE S == {Begun(evs)[i].index : i \in DOMAIN Begun(evs)}
           uses == [k \in DOMAIN Ordered(S) |-> Use(evs, Ordered(S)[k])]
           t == Said(evs)
<1>1. Gathered(evs) = Spoken(t) \o uses
  BY GatheredIs DEF Spoken
<1>2. t \in Words
  <2>1. Said(evs) = Spread(evs, TextOfEvent)
            /\ TextOfEvent \in Makers(StreamEvents, Strings)
    BY SaidIs, EventFunctions
  <2>2. QED
    BY <2>1, SpreadType DEF Words
<1>3. Begun(evs) \in Seq(StreamEvents)
          /\ \A i \in DOMAIN Begun(evs) : Begun(evs)[i] \in StreamEvents
  BY BegunIs, LenProperties, ElementOfSeq
<1>4. S \in SUBSET Nat /\ IsFiniteSet(S)
  <2>1. \A i \in DOMAIN Begun(evs) : Begun(evs)[i].index \in Nat
    BY <1>3 DEF StreamEvents
  <2>2. DOMAIN Begun(evs) = 1..Len(Begun(evs)) /\ Len(Begun(evs)) \in Nat
    BY <1>3, LenProperties
  <2>3. IsFiniteSet(1..Len(Begun(evs)))
    BY <2>2, FS_Interval
  <2>4. IsFiniteSet(S)
    <3> DEFINE f == [i \in DOMAIN Begun(evs) |-> Begun(evs)[i].index]
    <3>1. f \in Surjection(DOMAIN Begun(evs), S)
      BY DEF Surjection
    <3>2. IsFiniteSet(DOMAIN Begun(evs))
      BY <2>2, <2>3
    <3> HIDE DEF S, f
    <3>3. QED
      BY <3>1, <3>2, FS_Surjection
  <2>5. QED
    BY <2>1, <2>4
<1>5. ASSUME NEW n \in S
      PROVE  /\ Use(evs, n) \in Blocks /\ Use(evs, n).type = "tool_use"
             /\ Use(evs, n).text = IF Parses(Use(evs, n).text) THEN Use(evs, n).text
                    ELSE <<>>
  <2>1. Beginning(evs, n) \in Blocks
    <3>1. Beginning(evs, n) = Spread(evs, BegunAt(n))[1].block
              /\ Spread(evs, BegunAt(n)) # <<>>
      BY BeginningIs
    <3>2. BegunAt(n) \in Makers(StreamEvents, StreamEvents)
      BY EventFunctions
    <3>3. Spread(evs, BegunAt(n)) \in Seq(StreamEvents)
      BY <3>2, SpreadType
    <3>4. Spread(evs, BegunAt(n))[1] \in StreamEvents
      BY <3>1, <3>3, HeadAndRest
    <3>5. QED
      BY <3>1, <3>4 DEF StreamEvents
  <2>2. Input(evs, n) \in Words /\ <<>> \in Words /\ "tool_use" \in Strings
    BY InputIs, NoIdIsId, StringsAre
  <2> DEFINE given == IF Parses(Input(evs, n)) THEN Input(evs, n) ELSE <<>>
             b == Beginning(evs, n)
  <2>3. Use(evs, n) = ToolUse(b.id, b.name, given)
    BY DEF Use
  <2>4. given \in Words /\ given = IF Parses(given) THEN given ELSE <<>>
    BY <2>2 DEF Parses
  <2>5. b.id \in Ids /\ b.name \in Strings
    BY <2>1 DEF Blocks
  <2> HIDE DEF given, b
  <2>6. /\ ToolUse(b.id, b.name, given)
               = [type |-> "tool_use", text |-> given, id |-> b.id, name |-> b.name]
    BY DEF ToolUse, Block
  <2>7. Use(evs, n).text = given /\ Use(evs, n).type = "tool_use"
            /\ Use(evs, n) \in Blocks
    BY <2>2, <2>3, <2>4, <2>5, <2>6 DEF Blocks
  <2>8. QED
    BY <2>4, <2>7
<1>6. /\ Cardinality(S) \in Nat /\ DOMAIN Ordered(S) = 1..Cardinality(S)
      /\ \A k \in DOMAIN Ordered(S) : Ordered(S)[k] \in S
  BY <1>4, OrderedWithin
<1>7. Uses(uses)
  <2> HIDE DEF S
  <2>1. uses = [k \in 1..Cardinality(S) |-> uses[k]]
            /\ \A k \in 1..Cardinality(S) : uses[k] \in Blocks
    BY <1>5, <1>6
  <2>2. uses \in Seq(Blocks) /\ DOMAIN uses = 1..Cardinality(S)
    <3> HIDE DEF uses
    <3>1. QED
      BY <1>6, <2>1, IsSequence
  <2>3. \A k \in DOMAIN uses : /\ uses[k].type = "tool_use"
                               /\ uses[k].text = IF Parses(uses[k].text)
                                      THEN uses[k].text ELSE <<>>
    BY <1>5, <1>6
  <2>4. QED
    BY <2>2, <2>3 DEF Uses
<1> HIDE DEF uses, t
<1>8. QED
  BY <1>1, <1>2, <1>7 DEF AnswerTurn

(* The blocks of a turn by their types.                                    *)
LEMMA AnswerTurnIs ==
    ASSUME NEW m, NEW t, NEW uses, AnswerTurn(m, t, uses)
    PROVE  /\ m \in TurnSet /\ m.role = "assistant" /\ m.blocks = Spoken(t) \o uses
           /\ Of("text", m.blocks) = Spoken(t) /\ Joined(Of("text", m.blocks)) = t
           /\ Of("tool_use", m.blocks) = uses /\ Of("tool_result", m.blocks) = <<>>
<1>1. t \in Words /\ Uses(uses) /\ m.role = "assistant" /\ m.blocks = Spoken(t) \o uses
  BY DEF AnswerTurn
<1>2. uses \in Seq(Blocks) /\ \A i \in DOMAIN uses : uses[i].type = "tool_use"
  BY <1>1 DEF Uses
<1>3. /\ m.blocks \in Seq(Blocks) /\ Of("text", m.blocks) = Spoken(t)
             /\ Joined(Of("text", m.blocks)) = t
      /\ Of("tool_use", m.blocks) = uses /\ Of("tool_result", m.blocks) = <<>>
  BY <1>1, <1>2, SpokenAndUses
<1>4. m \in TurnSet
  BY <1>3, StringsAre DEF AnswerTurn, TurnSet
<1>5. QED
  BY <1>1, <1>3, <1>4

(* What is in a turn of the agent.                                         *)
LEMMA AskTurnIs ==
    ASSUME NEW m, NEW results, NEW t, AskTurn(m, results, t)
    PROVE  /\ m \in TurnSet /\ m.role = "user" /\ m.blocks = results \o Spoken(t)
           /\ Of("text", m.blocks) = Spoken(t) /\ Joined(Of("text", m.blocks)) = t
           /\ Of("tool_result", m.blocks) = results /\ Of("tool_use", m.blocks) = <<>>
<1>1. t \in Words /\ Given(results) /\ m.role = "user" /\ m.blocks = results \o Spoken(t)
  BY DEF AskTurn
<1>2. results \in Seq(Blocks) /\ \A i \in DOMAIN results : results[i].type = "tool_result"
  BY <1>1 DEF Given
<1>3. Of("tool_result", results) = results /\ Of("text", results) = <<>>
          /\ Of("tool_use", results) = <<>>
  BY <1>2, OfUniform
<1>4. /\ Spoken(t) \in Seq(Blocks) /\ Joined(Spoken(t)) = t
             /\ Of("text", Spoken(t)) = Spoken(t)
      /\ Of("tool_use", Spoken(t)) = <<>> /\ Of("tool_result", Spoken(t)) = <<>>
  BY <1>1, SpokenIs
<1>5. ASSUME NEW type
      PROVE  /\ m.blocks \in Seq(Blocks)
             /\ Of(type, m.blocks) = Of(type, results) \o Of(type, Spoken(t))
  <2>1. /\ results \o Spoken(t) \in Seq(Blocks)
        /\ Of(type, results \o Spoken(t)) = Of(type, results) \o Of(type, Spoken(t))
    BY <1>2, <1>4, OfConcat
  <2>2. QED
    BY <1>1, <2>1
<1>6. /\ Of("text", m.blocks) = Spoken(t) /\ Of("tool_result", m.blocks) = results
      /\ Of("tool_use", m.blocks) = <<>>
  <2>1. <<>> \o Spoken(t) = Spoken(t) /\ results \o <<>> = results /\ <<>> \o <<>> = <<>>
    BY <1>2, <1>4, EmptySeq, ConcatEmptySeq
  <2>2. QED
    BY <1>3, <1>4, <1>5, <2>1
<1>7. m \in TurnSet
  BY <1>5, StringsAre DEF AskTurn, TurnSet
<1>8. QED
  BY <1>1, <1>4, <1>6, <1>7

-----------------------------------------------------------------------------
(* The messages that are sent for a turn.                                  *)
Wires == [role : Strings, text : Words, calls : Seq(WireCalls), answers : Ids, results :
        {<<>>}]

Parted(m) == IF m.results # <<>> THEN <<[m EXCEPT !.results = <<>>]>> \o m.results
        ELSE <<m>>
SentFor(m) == Parted(ToOpenAIMessage(m))

CallsOf(uses) == [i \in DOMAIN uses |-> [id |-> uses[i].id, name |-> uses[i].name,
        args |-> uses[i].text]]
ToolsOf(results) == [i \in DOMAIN results |-> Message("tool", results[i].text, <<>>,
        results[i].id)]
Lead(results, t) ==
    IF t = <<>> /\ Len(results) = 1 THEN <<>>
    ELSE <<Message(IF results = <<>> \/ t # <<>> THEN "user" ELSE NoRole, t, <<>>, NoId)>>

(* An OpenAI message.                                                      *)
LEMMA MessageIs ==
    ASSUME NEW role \in Strings, NEW text \in Words, NEW calls \in Seq(WireCalls),
               NEW answers \in Ids
    PROVE  /\ Message(role, text, calls, answers) \in Wires
           /\ Message(role, text, calls, answers) =
                 [role |-> role, text |-> text, calls |-> calls, answers |-> answers,
                     results |-> <<>>]
BY DEF Message, Wires

(* The calls of a turn as an OpenAI message has them.                      *)
LEMMA CallsOfType ==
    ASSUME NEW uses \in Seq(Blocks)
    PROVE  /\ CallsOf(uses) \in Seq(WireCalls) /\ DOMAIN CallsOf(uses) = DOMAIN uses
           /\ \A i \in DOMAIN uses :
                 CallsOf(uses)[i] = [id |-> uses[i].id, name |-> uses[i].name,
                     args |-> uses[i].text]
<1>1. Len(uses) \in Nat /\ DOMAIN uses = 1..Len(uses)
          /\ \A i \in 1..Len(uses) : uses[i] \in Blocks
  BY LenProperties, ElementOfSeq
<1>2. CallsOf(uses) = [i \in 1..Len(uses) |-> CallsOf(uses)[i]]
  BY <1>1 DEF CallsOf
<1>3. \A i \in DOMAIN uses :
         CallsOf(uses)[i] = [id |-> uses[i].id, name |-> uses[i].name,
             args |-> uses[i].text]
  BY DEF CallsOf
<1>4. \A i \in 1..Len(uses) : CallsOf(uses)[i] \in WireCalls
  <2>1. ASSUME NEW i \in 1..Len(uses) PROVE CallsOf(uses)[i] \in WireCalls
    <3>1. uses[i].id \in Ids /\ uses[i].name \in Strings /\ uses[i].text \in Words
      BY <1>1 DEF Blocks
    <3>2. CallsOf(uses)[i] = [id |-> uses[i].id, name |-> uses[i].name,
              args |-> uses[i].text]
      BY <1>1, <1>3
    <3>3. QED
      BY <3>1, <3>2 DEF WireCalls
  <2>2. QED
    BY <2>1
<1>5. QED
  BY <1>1, <1>2, <1>3, <1>4, IsSequence

(* The results of a turn as messages of their own.                         *)
LEMMA ToolsOfType ==
    ASSUME NEW results \in Seq(Blocks)
    PROVE  /\ ToolsOf(results) \in Seq(Wires) /\ DOMAIN ToolsOf(results) = DOMAIN results
           /\ Len(ToolsOf(results)) = Len(results)
           /\ \A i \in DOMAIN results :
                 ToolsOf(results)[i] = Message("tool", results[i].text, <<>>,
                     results[i].id)
<1>1. Len(results) \in Nat /\ DOMAIN results = 1..Len(results)
          /\ \A i \in 1..Len(results) : results[i] \in Blocks
  BY LenProperties, ElementOfSeq
<1>2. ToolsOf(results) = [i \in 1..Len(results) |-> ToolsOf(results)[i]]
  BY <1>1 DEF ToolsOf
<1>3. \A i \in DOMAIN results :
         ToolsOf(results)[i] = Message("tool", results[i].text, <<>>, results[i].id)
  BY DEF ToolsOf
<1>4. \A i \in 1..Len(results) : ToolsOf(results)[i] \in Wires
  <2>1. "tool" \in Strings /\ <<>> \in Seq(WireCalls)
    BY StringsAre, EmptySeq
  <2>2. \A i \in 1..Len(results) : results[i].text \in Words /\ results[i].id \in Ids
    BY <1>1 DEF Blocks
  <2>3. QED
    BY <1>1, <1>3, <2>1, <2>2, MessageIs
<1>5. QED
  BY <1>1, <1>2, <1>3, <1>4, IsSequence

(* An answer is sent as one message.                                       *)
LEMMA SentForAnswer ==
    ASSUME NEW m, NEW t, NEW uses, AnswerTurn(m, t, uses)
    PROVE  /\ ToOpenAIMessage(m) = Message("assistant", t, CallsOf(uses), NoId)
           /\ SentFor(m) = <<Message("assistant", t, CallsOf(uses), NoId)>>
           /\ Message("assistant", t, CallsOf(uses), NoId) \in Wires
<1>1. /\ m.role = "assistant" /\ Joined(Of("text", m.blocks)) = t
             /\ Of("tool_use", m.blocks) = uses
  BY AnswerTurnIs
<1>2. ToOpenAIMessage(m) = Message("assistant", t, CallsOf(uses), NoId)
  BY <1>1 DEF ToOpenAIMessage, CallsOf
<1>3. t \in Words /\ uses \in Seq(Blocks) /\ "assistant" \in Strings /\ NoId \in Ids
  BY StringsAre, NoIdIsId DEF AnswerTurn, Uses
<1>4. CallsOf(uses) \in Seq(WireCalls)
  BY <1>3, CallsOfType
<1>5. Message("assistant", t, CallsOf(uses), NoId) \in Wires
  BY <1>3, <1>4, MessageIs
<1>6. Message("assistant", t, CallsOf(uses), NoId).results = <<>>
  BY DEF Message
<1>7. QED
  BY <1>2, <1>5, <1>6 DEF SentFor, Parted

(* What the converter of messages makes of a turn of the agent.            *)
LEMMA AskSent ==
    ASSUME NEW m, NEW results, NEW t, AskTurn(m, results, t)
    PROVE  ToOpenAIMessage(m) =
              IF results = <<>> THEN Message("user", t, <<>>, NoId)
              ELSE IF t # <<>> THEN [Message("user", t, <<>>, NoId) EXCEPT !.results
                  = ToolsOf(results)]
              ELSE ResultsOnly(ToolsOf(results))
<1>1. /\ m.role = "user" /\ Joined(Of("text", m.blocks)) = t
             /\ Of("tool_result", m.blocks) = results
  BY AskTurnIs
<1>2. m.role # "assistant"
  BY <1>1
<1>3. QED
  BY <1>1, <1>2 DEF ToOpenAIMessage, ToolsOf

(* It is sent as what is left of it and its results.                       *)
LEMMA SentForAsk ==
    ASSUME NEW m, NEW results, NEW t, AskTurn(m, results, t)
    PROVE  /\ SentFor(m) = Lead(results, t) \o ToolsOf(results)
           /\ Lead(results, t) \in Seq(Wires) /\ ToolsOf(results) \in Seq(Wires)
<1>1. /\ m.role = "user" /\ Joined(Of("text", m.blocks)) = t
             /\ Of("tool_result", m.blocks) = results
  BY AskTurnIs
<1>2. t \in Words /\ results \in Seq(Blocks) /\ "user" \in Strings /\ NoRole \in Strings
          /\ NoId \in Ids
      /\ <<>> \in Words /\ <<>> \in Seq(WireCalls)
  BY StringsAre, NoIdIsId, EmptySeq DEF AskTurn, Given
<1> DEFINE tools == ToolsOf(results)
           ask == Message("user", t, <<>>, NoId)
           none == Message(NoRole, <<>>, <<>>, NoId)
<1>3. tools \in Seq(Wires) /\ Len(tools) = Len(results)
  BY <1>2, ToolsOfType
<1>4. ask \in Wires /\ none \in Wires /\ ask.results = <<>> /\ none.results = <<>>
  <2>1. ask \in Wires /\ none \in Wires
    BY <1>2, MessageIs
  <2>2. QED
    BY <2>1 DEF Wires
<1>5. Lead(results, t) \in Seq(Wires)
  <2>1. Message(IF results = <<>> \/ t # <<>> THEN "user"
            ELSE NoRole, t, <<>>, NoId) \in Wires
    <3>1. (IF results = <<>> \/ t # <<>> THEN "user" ELSE NoRole) \in Strings
      BY <1>2
    <3>2. QED
      BY <1>2, <3>1, MessageIs
  <2>2. QED
    BY <2>1, EmptySeq, OneOrTwo DEF Lead
<1>6. ToOpenAIMessage(m) =
         IF results = <<>> THEN ask
         ELSE IF t # <<>> THEN [ask EXCEPT !.results = tools]
         ELSE ResultsOnly(tools)
  BY AskSent
<1>7. ASSUME NEW w \in Wires, tools # <<>> PROVE Parted([w EXCEPT !.results = tools])
                 = <<w>> \o tools
  <2>1. [w EXCEPT !.results = tools].results = tools
    BY DEF Wires
  <2>2. [[w EXCEPT !.results = tools] EXCEPT !.results = <<>>] = w
    BY DEF Wires
  <2>3. QED
    BY <1>7, <2>1, <2>2 DEF Parted
<1>8. Len(results) \in Nat /\ (results = <<>> <=> Len(results) = 0)
          /\ (tools = <<>> <=> Len(tools) = 0)
  BY <1>2, <1>3, EmptySeq, LenProperties
<1> HIDE DEF tools, ask, none
<1>9. CASE results = <<>>
  <2>1. SentFor(m) = <<ask>>
    BY <1>4, <1>6, <1>9 DEF SentFor, Parted
  <2>2. Lead(results, t) = <<ask>>
    BY <1>8, <1>9 DEF Lead, ask
  <2>3. tools = <<>>
    BY <1>3, <1>8, <1>9
  <2>4. <<ask>> \o <<>> = <<ask>>
    BY <1>4, OneOrTwo, ConcatEmptySeq
  <2>5. QED
    BY <1>3, <1>5, <2>1, <2>2, <2>3, <2>4 DEF tools
<1>10. CASE results # <<>> /\ t # <<>>
  <2>1. SentFor(m) = <<ask>> \o tools
    BY <1>3, <1>4, <1>6, <1>7, <1>8, <1>10 DEF SentFor
  <2>2. Lead(results, t) = <<ask>>
    BY <1>10 DEF Lead, ask
  <2>3. QED
    BY <1>3, <1>5, <2>1, <2>2 DEF tools
<1>11. CASE results # <<>> /\ t = <<>> /\ Len(results) = 1
  <2>1. ToOpenAIMessage(m) = tools[1]
    BY <1>3, <1>6, <1>11 DEF ResultsOnly
  <2>2. tools[1] \in Wires /\ tools = <<tools[1]>>
    <3>1. tools[1] \in Wires
      BY <1>3, <1>11, ElementOfSeq
    <3>2. <<tools[1]>> \in Seq(Wires) /\ Len(<<tools[1]>>) = 1
      BY <3>1, OneOrTwo
    <3>3. QED
      BY <1>3, <1>11, <3>1, <3>2, SeqEqual
  <2>3. SentFor(m) = <<tools[1]>>
    BY <2>1, <2>2 DEF SentFor, Parted, Wires
  <2>4. Lead(results, t) = <<>>
    BY <1>11 DEF Lead
  <2>5. <<>> \o tools = tools
    BY <1>3, ConcatEmptySeq
  <2>6. QED
    BY <1>3, <1>5, <2>2, <2>3, <2>4, <2>5 DEF tools
<1>12. CASE results # <<>> /\ t = <<>> /\ Len(results) # 1
  <2>1. ToOpenAIMessage(m) = [none EXCEPT !.results = tools]
    BY <1>3, <1>6, <1>12 DEF ResultsOnly, none
  <2>2. SentFor(m) = <<none>> \o tools
    BY <1>3, <1>4, <1>7, <1>8, <1>12, <2>1 DEF SentFor
  <2>3. Lead(results, t) = <<none>>
    BY <1>12 DEF Lead, none
  <2>4. QED
    BY <1>3, <1>5, <2>2, <2>3 DEF tools
<1>13. QED
  BY <1>9, <1>10, <1>11, <1>12

-----------------------------------------------------------------------------
(* A turn comes back as it was, its blocks of each type in order.          *)
Turn(m) == \/ \E t, uses : AnswerTurn(m, t, uses)
           \/ \E results, t : AskTurn(m, results, t)
Conversation == {m \in TurnSet : Turn(m)}
BackTurn == [w \in Wires |-> ToAnthropicMessage(w)]
BackParts(type) == [w \in Wires |-> Of(type, ToAnthropicMessage(w).blocks)]
Sends == [m \in Conversation |-> SentFor(m)]
AllOf(type) == [m \in TurnSet |-> Of(type, m.blocks)]
AllSaid(type) == [m \in Conversation |-> Of(type, m.blocks)]

(* What the translation back makes of a message.                           *)
LEMMA BackTurnIs ==
    ASSUME NEW w \in Wires
    PROVE  /\ ToAnthropicMessage(w) \in TurnSet
           /\ w.role = "tool" => ToAnthropicMessage(w).blocks
                  = <<ToolResult(w.answers, w.text)>>
           /\ w.role # "tool" => ToAnthropicMessage(w).blocks = Spoken(w.text)
                 \o [i \in DOMAIN w.calls |-> ToolUse(w.calls[i].id, w.calls[i].name,
                     Passed(w.calls[i]))]
           /\ ToAnthropicMessage(w).role = IF w.role = "assistant" THEN "assistant"
                  ELSE "user"
<1> DEFINE m == ToAnthropicMessage(w)
           uses == [i \in DOMAIN w.calls |-> ToolUse(w.calls[i].id, w.calls[i].name,
                   Passed(w.calls[i]))]
<1>1. w.calls \in Seq(WireCalls) /\ w.text \in Words /\ w.answers \in Ids
  BY DEF Wires
<1>2. w.role = "tool" => m.blocks = <<ToolResult(w.answers, w.text)>>
  BY DEF ToAnthropicMessage
<1>3. w.role # "tool" => m.blocks = Spoken(w.text) \o uses
  BY DEF ToAnthropicMessage, Spoken, Passed
<1>4. m.role = IF w.role = "assistant" THEN "assistant" ELSE "user"
  BY DEF ToAnthropicMessage
<1>5. ToolResult(w.answers, w.text) \in Blocks
  <2>1. "tool_result" \in Strings /\ NoName \in Strings
    BY StringsAre
  <2>2. QED
    BY <1>1, <2>1 DEF ToolResult, Block, Blocks
<1>6. Len(w.calls) \in Nat /\ DOMAIN w.calls = 1..Len(w.calls)
          /\ \A i \in 1..Len(w.calls) : w.calls[i] \in WireCalls
  BY <1>1, LenProperties, ElementOfSeq
<1>7. uses \in Seq(Blocks)
  <2>1. ASSUME NEW c \in WireCalls PROVE ToolUse(c.id, c.name, Passed(c)) \in Blocks
    <3>1. "tool_use" \in Strings /\ c.id \in Ids /\ c.name \in Strings
              /\ c.args \in Words /\ <<>> \in Words
      BY StringsAre, NoIdIsId DEF WireCalls
    <3>2. Passed(c) \in Words
      BY <3>1 DEF Passed
    <3>3. QED
      BY <3>1, <3>2 DEF ToolUse, Block, Blocks
  <2>2. uses = [i \in 1..Len(w.calls) |-> uses[i]]
            /\ \A i \in 1..Len(w.calls) : uses[i] \in Blocks
    BY <1>6, <2>1
  <2> HIDE DEF uses
  <2>3. QED
    BY <1>6, <2>2, IsSequence
<1>8. Spoken(w.text) \o uses \in Seq(Blocks)
  <2> HIDE DEF uses
  <2>1. QED
    BY <1>1, <1>7, SpokenIs, ConcatProperties
<1>9. m.blocks \in Seq(Blocks)
  BY <1>2, <1>3, <1>5, <1>8, OneOrTwo
<1>10. m = [role |-> m.role, blocks |-> m.blocks]
  BY DEF ToAnthropicMessage
<1>11. m.role \in Strings
  BY <1>4, StringsAre
<1>12. m \in TurnSet
  <2> HIDE DEF m
  <2>1. QED
    BY <1>9, <1>10, <1>11 DEF TurnSet
<1>13. QED
  BY <1>2, <1>3, <1>4, <1>12

(* The parts of turns and of messages.                                     *)
LEMMA TurnFunctions ==
    /\ BackTurn \in [Wires -> TurnSet]
    /\ Sends \in Makers(Conversation, Wires)
    /\ \A type : /\ BackParts(type) \in Makers(Wires, Blocks)
           /\ AllOf(type) \in Makers(TurnSet, Blocks)
                 /\ AllSaid(type) \in Makers(Conversation, Blocks)
<1>1. \A w \in Wires : ToAnthropicMessage(w) \in TurnSet
  BY BackTurnIs
<1>2. BackTurn \in [Wires -> TurnSet]
  BY <1>1 DEF BackTurn
<1>3. ASSUME NEW type, NEW m \in TurnSet PROVE Of(type, m.blocks) \in Seq(Blocks)
  <2>1. m.blocks \in Seq(Blocks)
    BY DEF TurnSet
  <2>2. QED
    BY <2>1, OfTypeIs
<1>4. ASSUME NEW type
      PROVE  /\ BackParts(type) \in Makers(Wires, Blocks)
                    /\ AllOf(type) \in Makers(TurnSet, Blocks)
             /\ AllSaid(type) \in Makers(Conversation, Blocks)
  BY <1>1, <1>3 DEF BackParts, AllOf, AllSaid, Conversation, Makers
<1>5. ASSUME NEW m \in Conversation PROVE SentFor(m) \in Seq(Wires)
  <2>1. CASE \E t, uses : AnswerTurn(m, t, uses)
    <3>1. PICK t, uses : AnswerTurn(m, t, uses)
      BY <2>1
    <3>2. /\ SentFor(m) = <<Message("assistant", t, CallsOf(uses), NoId)>>
          /\ Message("assistant", t, CallsOf(uses), NoId) \in Wires
      BY <3>1, SentForAnswer
    <3>3. QED
      BY <3>2, OneOrTwo
  <2>2. CASE \E results, t : AskTurn(m, results, t)
    <3>1. PICK results, t : AskTurn(m, results, t)
      BY <2>2
    <3>2. /\ SentFor(m) = Lead(results, t) \o ToolsOf(results)
          /\ Lead(results, t) \in Seq(Wires) /\ ToolsOf(results) \in Seq(Wires)
      BY <3>1, SentForAsk
    <3>3. QED
      BY <3>2, ConcatProperties
  <2>3. QED
    BY <2>1, <2>2 DEF Conversation, Turn
<1>6. Sends \in Makers(Conversation, Wires)
  BY <1>5 DEF Sends, Makers
<1>7. QED
  BY <1>2, <1>4, <1>6

(* Results that come back are those that were sent.                        *)
LEMMA ResultsBack ==
    ASSUME NEW results, Given(results), NEW type
    PROVE  Spread(ToolsOf(results), BackParts(type)) = Of(type, results)
<1> DEFINE tool == [b \in Blocks |-> Message("tool", b.text, <<>>, b.id)]
           one == [b \in Blocks |-> <<tool[b]>>]
<1>1. results \in Seq(Blocks) /\ \A i \in DOMAIN results : results[i] \in Blocks
  BY LenProperties, ElementOfSeq DEF Given
<1>2. \A b \in Blocks : tool[b] \in Wires /\ tool[b] = Message("tool", b.text, <<>>, b.id)
  <2>1. "tool" \in Strings /\ <<>> \in Seq(WireCalls)
    BY StringsAre, EmptySeq
  <2>2. \A b \in Blocks : b.text \in Words /\ b.id \in Ids
    BY DEF Blocks
  <2>3. QED
    BY <2>1, <2>2, MessageIs
<1>3. tool \in [Blocks -> Wires] /\ one \in Makers(Blocks, Wires)
          /\ \A b \in Blocks : one[b] = <<tool[b]>>
  BY <1>2, OneOrTwo DEF Makers
<1>4. ToolsOf(results) = [i \in DOMAIN results |-> tool[results[i]]]
  BY <1>1, <1>2 DEF ToolsOf
<1> HIDE DEF tool, one
<1>5. ToolsOf(results) = Spread(results, one)
  <2>1. \A b \in Blocks : one[b] = <<tool[b]>>
    BY <1>3
  <2>2. ToolsOf(results) \in Seq(Wires) /\ Len(ToolsOf(results)) = Len(results)
            /\ DOMAIN results = 1..Len(results)
    BY <1>1, ToolsOfType, LenProperties
  <2>3. ASSUME NEW i \in 1..Len(results) PROVE one[results[i]] = <<ToolsOf(results)[i]>>
    BY <1>1, <1>4, <2>1, <2>2
  <2>4. Maps(one, results, ToolsOf(results))
    BY <2>2, <2>3 DEF Maps
  <2>5. QED
    BY <1>1, <2>2, <2>4, SpreadList
<1>6. ASSUME NEW j \in DOMAIN results
      PROVE  OfType(type)[results[j]] = Spread(one[results[j]], BackParts(type))
  <2> DEFINE b == results[j]
             w == tool[b]
  <2>1. b \in Blocks /\ b.type = "tool_result" /\ b.name = NoName
    BY <1>1 DEF Given
  <2>2. w \in Wires /\ w = Message("tool", b.text, <<>>, b.id)
    BY <1>2, <2>1
  <2>3. w.role = "tool" /\ w.answers = b.id /\ w.text = b.text
    BY <2>2 DEF Message
  <2>4. ToolResult(w.answers, w.text) = b
    BY <2>1, <2>3 DEF ToolResult, Block, Blocks
  <2>5. ToAnthropicMessage(w).blocks = <<b>>
    BY <2>2, <2>3, <2>4, BackTurnIs
  <2>6. <<b>> \in Seq(Blocks) /\ \A i \in DOMAIN <<b>> : <<b>>[i] = b
    BY <2>1, OneOrTwo
  <2>7. BackParts(type)[w] = Of(type, <<b>>)
    BY <2>2, <2>5 DEF BackParts
  <2>8. Of(type, <<b>>) = Spread(<<b>>, OfType(type))
            /\ OfType(type) \in Makers(Blocks, Blocks)
    BY <2>6, OfTypeIs
  <2> HIDE DEF b
  <2>9. Spread(<<b>>, OfType(type)) = OfType(type)[b]
    BY <2>1, <2>8, SpreadOne
  <2> HIDE DEF w
  <2>10. Spread(<<w>>, BackParts(type)) = BackParts(type)[w]
    BY <2>2, TurnFunctions, SpreadOne
  <2>11. one[results[j]] = <<w>>
    BY <1>3, <2>1 DEF b, w
  <2>12. QED
    BY <2>7, <2>8, <2>9, <2>10, <2>11 DEF b
<1>7. BackParts(type) \in Makers(Wires, Blocks) /\ OfType(type) \in Makers(Blocks, Blocks)
  BY <1>1, TurnFunctions, OfTypeIs
<1>8. Spread(Spread(results, one), BackParts(type)) = Spread(results, OfType(type))
  BY <1>1, <1>3, <1>6, <1>7, SpreadTwice
<1>9. Of(type, results) = Spread(results, OfType(type))
  BY <1>1, OfTypeIs
<1>10. QED
  BY <1>5, <1>8, <1>9

-----------------------------------------------------------------------------
(* What is sent for a turn, translated back.                               *)
LEMMA LeadBack ==
    ASSUME NEW results, NEW t \in Words, NEW type,
           Lead(results, t) \in Seq(Wires)
    PROVE  Spread(Lead(results, t), BackParts(type)) = Of(type, Spoken(t))
<1>1. Spoken(t) \in Seq(Blocks) /\ Of(type, <<>>) = <<>>
  <2>1. Of(type, <<>>) = Spread(<<>>, OfType(type))
    BY EmptySeq, OfTypeIs
  <2>2. QED
    BY <2>1, SpokenIs, SpreadNone
<1>2. CASE t = <<>> /\ Len(results) = 1
  BY <1>1, <1>2, SpreadNone DEF Lead, Spoken
<1>3. CASE ~(t = <<>> /\ Len(results) = 1)
  <2> DEFINE role == IF results = <<>> \/ t # <<>> THEN "user" ELSE NoRole
             w == Message(role, t, <<>>, NoId)
  <2>1. Lead(results, t) = <<w>>
    BY <1>3 DEF Lead
  <2>2. role \in Strings /\ <<>> \in Seq(WireCalls) /\ NoId \in Ids
    BY StringsAre, EmptySeq, NoIdIsId
  <2>3. w \in Wires
    BY <2>2, MessageIs
  <2>4. w.role # "tool" /\ w.text = t /\ w.calls = <<>>
    BY DEF Message, NoRole
  <2> HIDE DEF w
  <2>5. ToAnthropicMessage(w).blocks = Spoken(t)
    <3>1. ToAnthropicMessage(w).blocks = Spoken(t)
             \o [i \in DOMAIN w.calls |-> ToolUse(w.calls[i].id, w.calls[i].name,
                 Passed(w.calls[i]))]
      BY <2>3, <2>4, BackTurnIs
    <3>2. [i \in DOMAIN w.calls |-> ToolUse(w.calls[i].id, w.calls[i].name,
              Passed(w.calls[i]))] = <<>>
      BY <2>4
    <3>3. QED
      BY <1>1, <3>1, <3>2, ConcatEmptySeq
  <2>6. Spread(<<w>>, BackParts(type)) = BackParts(type)[w]
    BY <2>3, TurnFunctions, SpreadOne
  <2>7. QED
    BY <2>1, <2>3, <2>5, <2>6 DEF BackParts
<1>4. QED
  BY <1>2, <1>3

(* An answer comes back as it was.                                         *)
LEMMA AnswerBack ==
    ASSUME NEW m, NEW t, NEW uses, AnswerTurn(m, t, uses)
    PROVE  ToAnthropicMessage(Message("assistant", t, CallsOf(uses), NoId)) = m
<1> DEFINE w == Message("assistant", t, CallsOf(uses), NoId)
           back == [i \in DOMAIN w.calls |-> ToolUse(w.calls[i].id, w.calls[i].name,
                   Passed(w.calls[i]))]
<1>1. t \in Words /\ Uses(uses) /\ uses \in Seq(Blocks)
      /\ m = [role |-> "assistant", blocks |-> Spoken(t) \o uses]
  BY DEF AnswerTurn, Uses
<1>2. w \in Wires
  BY SentForAnswer
<1>3. w.role = "assistant" /\ w.text = t /\ w.calls = CallsOf(uses)
  BY DEF Message
<1>4. back = uses
  <2>1. /\ DOMAIN CallsOf(uses) = DOMAIN uses
        /\ \A i \in DOMAIN uses :
              CallsOf(uses)[i] = [id |-> uses[i].id, name |-> uses[i].name,
                  args |-> uses[i].text]
    BY <1>1, CallsOfType
  <2>2. DOMAIN back = DOMAIN uses
    BY <1>3, <2>1
  <2>3. ASSUME NEW i \in DOMAIN uses PROVE back[i] = uses[i]
    <3>1. uses[i] \in Blocks /\ uses[i].type = "tool_use"
          /\ uses[i].text = IF Parses(uses[i].text) THEN uses[i].text ELSE <<>>
      BY <1>1, LenProperties, ElementOfSeq DEF Uses
    <3>2. w.calls[i].id = uses[i].id /\ w.calls[i].name = uses[i].name
              /\ w.calls[i].args = uses[i].text
      BY <1>3, <2>1
    <3>3. Passed(w.calls[i]) = uses[i].text
      BY <3>1, <3>2 DEF Passed
    <3>4. back[i] = ToolUse(uses[i].id, uses[i].name, uses[i].text)
      BY <1>3, <2>1, <3>2, <3>3
    <3>5. QED
      BY <3>1, <3>4 DEF ToolUse, Block, Blocks
  <2>4. back = [i \in DOMAIN back |-> back[i]] /\ uses = [i \in DOMAIN uses |-> uses[i]]
    <3>1. uses = [i \in 1..Len(uses) |-> uses[i]] /\ DOMAIN uses = 1..Len(uses)
      BY <1>1, LenProperties
    <3>2. QED
      BY <3>1
  <2> HIDE DEF back
  <2>5. QED
    BY <2>2, <2>3, <2>4
<1> HIDE DEF w
<1>5. ToAnthropicMessage(w).role = "assistant"
          /\ ToAnthropicMessage(w).blocks = Spoken(t) \o back
  BY <1>2, <1>3, BackTurnIs
<1>6. ToAnthropicMessage(w) \in TurnSet
  BY <1>2, BackTurnIs
<1>7. ToAnthropicMessage(w) = [role |-> "assistant", blocks |-> Spoken(t) \o uses]
  <2>1. ToAnthropicMessage(w)
            = [role |-> ToAnthropicMessage(w).role,
                blocks |-> ToAnthropicMessage(w).blocks]
    BY <1>6 DEF TurnSet
  <2>2. QED
    BY <1>4, <1>5, <2>1
<1>8. QED
  BY <1>1, <1>7 DEF w

(* Every part of a turn comes back.                                        *)
LEMMA TurnBack ==
    ASSUME NEW m \in Conversation, NEW type \in {"text", "tool_use", "tool_result"}
    PROVE  AllSaid(type)[m] = Spread(Sends[m], BackParts(type))
<1>1. AllSaid(type)[m] = Of(type, m.blocks) /\ Sends[m] = SentFor(m)
  BY DEF AllSaid, Sends
<1>2. BackParts(type) \in Makers(Wires, Blocks)
  BY TurnFunctions
<1>3. CASE \E t, uses : AnswerTurn(m, t, uses)
  <2>1. PICK t, uses : AnswerTurn(m, t, uses)
    BY <1>3
  <2> DEFINE w == Message("assistant", t, CallsOf(uses), NoId)
  <2>2. SentFor(m) = <<w>> /\ w \in Wires /\ ToAnthropicMessage(w) = m
    BY <2>1, SentForAnswer, AnswerBack
  <2> HIDE DEF w
  <2>3. Spread(<<w>>, BackParts(type)) = BackParts(type)[w]
    BY <1>2, <2>2, SpreadOne
  <2>4. BackParts(type)[w] = Of(type, m.blocks)
    BY <2>2 DEF BackParts
  <2>5. QED
    BY <1>1, <2>2, <2>3, <2>4
<1>4. CASE \E results, t : AskTurn(m, results, t)
  <2>1. PICK results, t : AskTurn(m, results, t)
    BY <1>4
  <2>2. t \in Words /\ Given(results) /\ results \in Seq(Blocks)
            /\ Spoken(t) \in Seq(Blocks)
    BY <2>1, SpokenIs DEF AskTurn, Given
  <2> DEFINE a == Lead(results, t)
             b == ToolsOf(results)
  <2>3. SentFor(m) = a \o b /\ a \in Seq(Wires) /\ b \in Seq(Wires)
    BY <2>1, SentForAsk
  <2>4. Spread(a, BackParts(type)) = Of(type, Spoken(t))
    BY <2>2, <2>3, LeadBack
  <2>5. Spread(b, BackParts(type)) = Of(type, results)
    BY <2>2, ResultsBack
  <2> HIDE DEF a, b
  <2>6. Spread(a \o b, BackParts(type))
            = Spread(a, BackParts(type)) \o Spread(b, BackParts(type))
    BY <1>2, <2>3, SpreadConcat
  <2>7. Spread(Sends[m], BackParts(type)) = Of(type, Spoken(t)) \o Of(type, results)
    BY <1>1, <2>3, <2>4, <2>5, <2>6
  <2>8. Of(type, m.blocks) = IF type = "text" THEN Spoken(t) ELSE IF type = "tool_result"
            THEN results ELSE <<>>
    BY <2>1, AskTurnIs
  <2>9. CASE type = "text"
    <3>1. Of(type, Spoken(t)) = Spoken(t) /\ Of(type, results) = <<>>
      <4>1. \A i \in DOMAIN results : results[i].type = "tool_result"
        BY <2>2 DEF Given
      <4>2. Of("text", results) = <<>>
        BY <2>2, <4>1, OfUniform
      <4>3. Of("text", Spoken(t)) = Spoken(t)
        BY <2>2, SpokenIs
      <4>4. QED
        BY <2>9, <4>2, <4>3
    <3>2. QED
      BY <1>1, <2>2, <2>7, <2>8, <2>9, <3>1, ConcatEmptySeq
  <2>10. CASE type # "text"
    <3>1. Of(type, Spoken(t)) = <<>>
      BY <2>2, <2>10, SpokenIs
    <3>2. Of(type, results) = IF type = "tool_result" THEN results ELSE <<>>
      <4>1. \A i \in DOMAIN results : results[i].type = "tool_result"
        BY <2>2 DEF Given
      <4>2. QED
        BY <2>2, <4>1, OfUniform
    <3>3. Of(type, results) \in Seq(Blocks)
      BY <2>2, <3>2, EmptySeq
    <3>4. <<>> \o Of(type, results) = Of(type, results)
      BY <3>3, ConcatEmptySeq
    <3>5. QED
      BY <1>1, <2>7, <2>8, <2>10, <3>1, <3>2, <3>4
  <2>11. QED
    BY <2>9, <2>10
<1>5. QED
  BY <1>3, <1>4 DEF Conversation, Turn

-----------------------------------------------------------------------------
(* Turns that are merged: nothing of them is lost.                         *)
Merges(run, s) ==
    /\ run[0] = <<>> /\ run[Len(s)] = FoldLeft(Merged, <<>>, s)
    /\ \A i \in 1..Len(s) : run[i] = Merged(run[i - 1], s[i])

(* A sequence with another last element.                                   *)
LEMMA OtherLast ==
    ASSUME NEW B, NEW s \in Seq(B), s # <<>>, NEW x \in B
    PROVE  /\ Front(s) \in Seq(B) /\ Last(s) \in B /\ Len(s) \in Nat \ {0}
           /\ s = Append(Front(s), Last(s))
                  /\ [s EXCEPT ![Len(s)] = x] = Append(Front(s), x)
<1>1. Len(s) \in Nat \ {0} /\ Len(s) \in 1..Len(s)
  BY EmptySeq
<1>2. Front(s) \in Seq(B) /\ Last(s) \in B
          /\ SubSeq(s, 1, Len(s)) = Append(Front(s), Last(s))
  BY <1>1, UptoLast DEF Front, Last
<1>3. s = Append(Front(s), Last(s))
  BY <1>2, SubSeqFull
<1>4. Len(Front(s)) = Len(s) - 1
  BY <1>1, <1>2, <1>3, AppendProperties
<1> DEFINE t == [s EXCEPT ![Len(s)] = x]
           u == Append(Front(s), x)
<1>5. /\ t \in Seq(B) /\ Len(t) = Len(s)
      /\ \A j \in 1..Len(s) : t[j] = IF j = Len(s) THEN x ELSE s[j]
  BY <1>1, ExceptSeq
<1>6. /\ u \in Seq(B) /\ Len(u) = Len(s) /\ u[Len(s)] = x
      /\ \A j \in 1..Len(s) - 1 : u[j] = Front(s)[j]
  BY <1>1, <1>2, <1>4, AppendProperties
<1>7. \A j \in 1..Len(s) - 1 : s[j] = Front(s)[j]
  <2> DEFINE v == Append(Front(s), Last(s))
  <2>1. \A j \in 1..Len(s) - 1 : v[j] = Front(s)[j]
    BY <1>1, <1>2, <1>4, AppendProperties
  <2> HIDE DEF v
  <2>2. s = v
    BY <1>3 DEF v
  <2>3. QED
    BY <2>1, <2>2
<1> HIDE DEF t, u
<1>8. \A j \in 1..Len(t) : t[j] = u[j]
  BY <1>1, <1>5, <1>6, <1>7
<1>9. t = u
  BY <1>5, <1>6, <1>8, SeqEqual
<1>10. QED
  BY <1>1, <1>2, <1>3, <1>9 DEF t, u

(* Merging adds the blocks of a message.                                   *)
LEMMA MergeType ==
    ASSUME NEW merged \in Seq(TurnSet), NEW m \in TurnSet
    PROVE  /\ Merged(merged, m) \in Seq(TurnSet)
           /\ \A type : Spread(Merged(merged, m), AllOf(type))
                  = Spread(merged, AllOf(type)) \o AllOf(type)[m]
<1>1. CASE ~(merged # <<>> /\ IsList(m) /\ IsList(Last(merged)))
  <2>1. Merged(merged, m) = Append(merged, m)
    BY <1>1 DEF Merged
  <2>2. QED
    BY <2>1, AppendProperties, TurnFunctions, SpreadAppend
<1>2. CASE merged # <<>> /\ IsList(m) /\ IsList(Last(merged))
  <2> DEFINE old == Last(merged)
             new == [old EXCEPT !.blocks = @ \o m.blocks]
             front == Front(merged)
  <2>1. old \in TurnSet /\ front \in Seq(TurnSet) /\ merged = Append(front, old)
    BY <1>2, OtherLast
  <2>2. old.blocks \in Seq(Blocks) /\ m.blocks \in Seq(Blocks)
    BY <2>1 DEF TurnSet
  <2>3. \A type : Of(type, old.blocks \o m.blocks)
            = Of(type, old.blocks) \o Of(type, m.blocks)
    BY <2>2, OfConcat
  <2>4. new \in TurnSet /\ new.blocks = old.blocks \o m.blocks
    <3>1. old.blocks \o m.blocks \in Seq(Blocks)
      BY <2>2, ConcatProperties
    <3>2. QED
      BY <2>1, <3>1 DEF TurnSet
  <2>5. Merged(merged, m) = [merged EXCEPT ![Len(merged)] = new]
    BY <1>2 DEF Merged, Last
  <2>6. \A type : AllOf(type)[new] = AllOf(type)[old] \o AllOf(type)[m]
    BY <2>1, <2>3, <2>4 DEF AllOf
  <2> HIDE DEF new, old, front
  <2>7. Merged(merged, m) = Append(front, new)
    BY <1>2, <2>4, <2>5, OtherLast DEF front
  <2>8. Merged(merged, m) \in Seq(TurnSet)
    BY <2>1, <2>4, <2>7, AppendProperties
  <2>9. ASSUME NEW type
        PROVE  Spread(Merged(merged, m), AllOf(type))
                   = Spread(merged, AllOf(type)) \o AllOf(type)[m]
    <3> DEFINE f == AllOf(type)
    <3>1. f \in Makers(TurnSet, Blocks)
      BY TurnFunctions
    <3> HIDE DEF f
    <3>2. Spread(merged, f) = Spread(front, f) \o f[old]
              /\ Spread(Append(front, new), f) = Spread(front, f) \o f[new]
      BY <2>1, <2>4, <3>1, SpreadAppend
    <3>3. f[new] = f[old] \o f[m]
      BY <2>6 DEF f
    <3>4. Spread(front, f) \in Seq(Blocks) /\ f[old] \in Seq(Blocks)
              /\ f[m] \in Seq(Blocks)
      BY <2>1, <3>1, SpreadType DEF Makers
    <3>5. Spread(front, f) \o (f[old] \o f[m]) = (Spread(front, f) \o f[old]) \o f[m]
      <4> DEFINE a == Spread(front, f)
                 b == f[old]
                 c == f[m]
      <4>1. a \in Seq(Blocks) /\ b \in Seq(Blocks) /\ c \in Seq(Blocks)
        BY <3>4
      <4> HIDE DEF a, b, c
      <4>2. (a \o b) \o c = a \o (b \o c)
        BY <4>1, ConcatAssociative
      <4>3. QED
        BY <4>2 DEF a, b, c
    <3>6. QED
      BY <2>7, <3>2, <3>3, <3>5 DEF f
  <2>10. QED
    BY <2>8, <2>9
<1>3. QED
  BY <1>1, <1>2

(* The run behind the merging.                                             *)
LEMMA MergeRun ==
    ASSUME NEW s \in Seq(TurnSet)
    PROVE  Len(s) \in Nat /\ \E run \in [0..Len(s) -> Seq(TurnSet)] : Merges(run, s)
<1> DEFINE n == Len(s)
           step == [p \in (1..n) \X Seq(TurnSet) |-> Merged(p[2], s[p[1]])]
           Fold(it) == [S \in SUBSET (1..n) |->
                           IF S = {} THEN <<>> ELSE Merged(it[S \ {Max(S)}], s[Max(S)])]
<1>1. n \in Nat /\ DOMAIN s = 1..n /\ \A i \in 1..n : s[i] \in TurnSet
  BY LenProperties, ElementOfSeq
<1> HIDE DEF n
<1>2. <<>> \in Seq(TurnSet)
  BY EmptySeq
<1>3. step \in [(1..n) \X Seq(TurnSet) -> Seq(TurnSet)]
  BY <1>1, MergeType
<1>4. ASSUME NEW S \in SUBSET (1..n), S # {} PROVE Max(S) \in S
  <2>1. S \in SUBSET (0..n)
    OBVIOUS
  <2>2. QED
    BY <1>1, <1>4, <2>1, GreatestOf
<1>5. \E it : it = Fold(it)
  <2>1. PICK it \in [SUBSET (1..n) -> Seq(TurnSet)] : IsFold(it, n, <<>>, step)
    <3> HIDE DEF step
    <3>1. QED
      BY <1>1, <1>2, <1>3, FoldExists
  <2>2. ASSUME NEW S \in SUBSET (1..n)
        PROVE  it[S] = IF S = {} THEN <<>> ELSE Merged(it[S \ {Max(S)}], s[Max(S)])
    <3>1. CASE S = {}
      BY <2>1, <3>1 DEF IsFold
    <3>2. CASE S # {}
      <4>1. Max(S) \in 1..n /\ S \ {Max(S)} \in SUBSET (1..n)
        BY <1>4, <3>2
      <4>2. it[S \ {Max(S)}] \in Seq(TurnSet)
        BY <4>1
      <4>3. it[S] = step[<<Max(S), it[S \ {Max(S)}]>>]
        BY <2>1, <3>2 DEF IsFold
      <4>4. QED
        BY <3>2, <4>1, <4>2, <4>3
    <3>3. QED
      BY <3>1, <3>2
  <2>3. it = Fold(it)
    BY <2>2
  <2>4. QED
    BY <2>3
<1> DEFINE it == CHOOSE it : it = Fold(it)
<1>6. it = Fold(it)
  BY <1>5
<1>7. FoldLeft(Merged, <<>>, s) = it[1..n]
  BY <1>1 DEF FoldLeft, MapThenFoldSet
<1> HIDE DEF it
<1> DEFINE run == [i \in 0..n |-> it[1..i]]
<1>8. it[{}] = <<>> /\ \A i \in 1..n : it[1..i] = Merged(it[1..i - 1], s[i])
  <2>1. \A S \in SUBSET (1..n) : it[S] = IF S = {} THEN <<>>
            ELSE Merged(it[S \ {Max(S)}], s[Max(S)])
    BY <1>6
  <2>2. it[{}] = <<>>
    BY <2>1
  <2>3. ASSUME NEW i \in 1..n PROVE it[1..i] = Merged(it[1..i - 1], s[i])
    <3>1. 1..i \in SUBSET (1..n) /\ 1..i # {} /\ Max(1..i) = i /\ (1..i) \ {i} = 1..i - 1
      BY <1>1, FoldIsRun
    <3>2. QED
      BY <2>1, <3>1
  <2>4. QED
    BY <2>2, <2>3
<1>9. run[0] = <<>> /\ run[n] = FoldLeft(Merged, <<>>, s)
          /\ \A i \in 1..n : run[i] = Merged(run[i - 1], s[i])
  <2>1. 1..0 = {} /\ 0 \in 0..n /\ n \in 0..n /\ \A i \in 1..n : i \in 0..n
            /\ i - 1 \in 0..n
    BY <1>1
  <2>2. QED
    BY <1>7, <1>8, <2>1
<1>10. \A i \in 0..n : run[i] \in Seq(TurnSet)
  <2>1. \A i \in 1..n : run[i - 1] \in Seq(TurnSet) => run[i] \in Seq(TurnSet)
    BY <1>1, <1>9, MergeType
  <2>2. run[0] \in Seq(TurnSet)
    BY <1>2, <1>9
  <2> HIDE DEF run
  <2>3. QED
    BY <1>1, <2>1, <2>2, RunWithin
<1>11. run \in [0..n -> Seq(TurnSet)]
  BY <1>10
<1>12. Merges(run, s)
  BY <1>9 DEF Merges, n
<1>13. QED
  BY <1>1, <1>11, <1>12 DEF n

(* It keeps all blocks, in their order.                                    *)
LEMMA MergedKeeps ==
    ASSUME NEW s \in Seq(TurnSet), NEW type
    PROVE  /\ FoldLeft(Merged, <<>>, s) \in Seq(TurnSet)
           /\ Spread(FoldLeft(Merged, <<>>, s), AllOf(type)) = Spread(s, AllOf(type))
<1> DEFINE n == Len(s)
           f == AllOf(type)
<1>1. n \in Nat /\ \E run \in [0..n -> Seq(TurnSet)] : Merges(run, s)
  BY MergeRun
<1>2. PICK run \in [0..n -> Seq(TurnSet)] : Merges(run, s)
  BY <1>1
<1> DEFINE Wrong == {i \in 0..n : Spread(run[i], f) # Spread(SubSeq(s, 1, i), f)}
<1>3. f \in Makers(TurnSet, Blocks)
  BY TurnFunctions
<1> HIDE DEF f
<1>4. SubSeq(s, 1, 0) = <<>> /\ SubSeq(s, 1, n) = s
  BY SubSeqEmpty, SubSeqFull
<1>5. Wrong \in SUBSET (0..n) /\ 0 \notin Wrong
  BY <1>2, <1>4 DEF Merges
<1>6. ASSUME NEW i \in 1..n, i - 1 \notin Wrong PROVE i \notin Wrong
  <2>1. i - 1 \in 0..n /\ i \in 1..Len(s)
    BY <1>1
  <2>2. Spread(run[i - 1], f) = Spread(SubSeq(s, 1, i - 1), f)
            /\ run[i - 1] \in Seq(TurnSet)
    BY <1>6, <2>1
  <2>3. SubSeq(s, 1, i - 1) \in Seq(TurnSet) /\ s[i] \in TurnSet
            /\ SubSeq(s, 1, i) = Append(SubSeq(s, 1, i - 1), s[i])
    BY <2>1, UptoLast
  <2>4. run[i] = Merged(run[i - 1], s[i])
    BY <1>2, <2>1 DEF Merges
  <2>5. Spread(run[i], f) = Spread(run[i - 1], f) \o f[s[i]]
    BY <2>2, <2>3, <2>4, MergeType DEF f
  <2>6. Spread(SubSeq(s, 1, i), f) = Spread(SubSeq(s, 1, i - 1), f) \o f[s[i]]
    BY <1>3, <2>3, SpreadAppend
  <2>7. QED
    BY <2>2, <2>5, <2>6
<1>7. Wrong = {}
  <2> HIDE DEF Wrong
  <2>1. QED
    BY <1>1, <1>5, <1>6, NeverWrong
<1>8. n \in 0..n /\ run[n] = FoldLeft(Merged, <<>>, s)
  BY <1>1, <1>2 DEF Merges
<1>9. QED
  BY <1>4, <1>7, <1>8 DEF f

-----------------------------------------------------------------------------
(* A request carries all of the conversation, and back.                    *)
LEMMA SentIs ==
    ASSUME NEW s \in Seq(Conversation)
    PROVE  ToOpenAI(s) = Spread(s, Sends) /\ ToOpenAI(s) \in Seq(Wires)
<1>1. \A i \in DOMAIN s : s[i] \in Conversation
  BY LenProperties, ElementOfSeq
<1>2. \A i \in DOMAIN s : Sends[s[i]] = Parted(ToOpenAIMessage(s[i]))
  BY <1>1 DEF Sends, SentFor
<1>3. ToOpenAI(s) = FlattenSeq([i \in DOMAIN s |-> Parted(ToOpenAIMessage(s[i]))])
  BY DEF ToOpenAI, Parted
<1>4. [i \in DOMAIN s |-> Parted(ToOpenAIMessage(s[i]))]
          = [i \in DOMAIN s |-> Sends[s[i]]]
  BY <1>2
<1>5. ToOpenAI(s) = Spread(s, Sends)
  BY <1>3, <1>4 DEF Spread
<1>6. QED
  BY <1>5, TurnFunctions, SpreadType

(* The blocks of a type in a conversation.                                 *)
LEMMA AllIs ==
    ASSUME NEW type
    PROVE  /\ \A s \in Seq(TurnSet) : All(type, s) = Spread(s, AllOf(type))
           /\ \A s \in Seq(Conversation) : All(type, s) = Spread(s, AllSaid(type))
<1>1. ASSUME NEW s \in Seq(TurnSet) PROVE All(type, s) = Spread(s, AllOf(type))
  <2>1. \A i \in DOMAIN s : s[i] \in TurnSet
    BY LenProperties, ElementOfSeq
  <2>2. [i \in DOMAIN s |-> Of(type, s[i].blocks)]
            = [i \in DOMAIN s |-> AllOf(type)[s[i]]]
    BY <2>1 DEF AllOf
  <2>3. QED
    BY <2>2 DEF All, Spread
<1>2. ASSUME NEW s \in Seq(Conversation) PROVE All(type, s) = Spread(s, AllSaid(type))
  <2>1. \A i \in DOMAIN s : s[i] \in Conversation
    BY LenProperties, ElementOfSeq
  <2>2. [i \in DOMAIN s |-> Of(type, s[i].blocks)]
            = [i \in DOMAIN s |-> AllSaid(type)[s[i]]]
    BY <2>1 DEF AllSaid
  <2>3. QED
    BY <2>2 DEF All, Spread
<1>3. QED
  BY <1>1, <1>2

(* All of the conversation comes back.                                     *)
LEMMA CarriedBack ==
    ASSUME NEW s \in Seq(Conversation), NEW type \in {"text", "tool_use", "tool_result"}
    PROVE  All(type, ToAnthropic(ToOpenAI(s))) = All(type, s)
<1> DEFINE sent == ToOpenAI(s)
           back == [i \in DOMAIN sent |-> ToAnthropicMessage(sent[i])]
<1>1. sent \in Seq(Wires) /\ sent = Spread(s, Sends)
  BY SentIs
<1> HIDE DEF sent
<1>2. Len(sent) \in Nat /\ DOMAIN sent = 1..Len(sent)
          /\ \A i \in 1..Len(sent) : sent[i] \in Wires
  BY <1>1, LenProperties, ElementOfSeq
<1>3. DOMAIN back = DOMAIN sent
          /\ \A i \in DOMAIN sent : back[i] = ToAnthropicMessage(sent[i])
  OBVIOUS
<1>4. ToAnthropic(sent) = FoldLeft(Merged, <<>>, back)
  BY DEF ToAnthropic
<1>5. \A i \in 1..Len(sent) : back[i] \in TurnSet
  BY <1>2, <1>3, BackTurnIs
<1>6. back = [i \in 1..Len(sent) |-> back[i]]
  BY <1>2
<1> HIDE DEF back
<1>7. back \in Seq(TurnSet)
  BY <1>2, <1>5, <1>6, IsSequence
<1>8. /\ ToAnthropic(sent) \in Seq(TurnSet)
      /\ Spread(ToAnthropic(sent), AllOf(type)) = Spread(back, AllOf(type))
  BY <1>4, <1>7, MergedKeeps
<1>9. Spread(back, AllOf(type)) = Spread(sent, BackParts(type))
  <2>1. \A i \in DOMAIN sent : AllOf(type)[back[i]] = BackParts(type)[sent[i]]
    BY <1>2, <1>3, <1>5 DEF AllOf, BackParts
  <2>2. [i \in DOMAIN back |-> AllOf(type)[back[i]]]
            = [i \in DOMAIN sent |-> BackParts(type)[sent[i]]]
    BY <1>3, <2>1
  <2>3. QED
    BY <2>2 DEF Spread
<1>10. Spread(sent, BackParts(type)) = Spread(s, AllSaid(type))
  <2>1. \A i \in DOMAIN s : AllSaid(type)[s[i]] = Spread(Sends[s[i]], BackParts(type))
    <3>1. \A i \in DOMAIN s : s[i] \in Conversation
      BY LenProperties, ElementOfSeq
    <3>2. QED
      BY <3>1, TurnBack
  <2>2. /\ Sends \in Makers(Conversation, Wires)
               /\ BackParts(type) \in Makers(Wires, Blocks)
        /\ AllSaid(type) \in Makers(Conversation, Blocks)
    BY TurnFunctions
  <2>3. QED
    BY <1>1, <2>1, <2>2, SpreadTwice
<1>11. QED
  BY <1>8, <1>9, <1>10, AllIs DEF sent

-----------------------------------------------------------------------------
(* The conversation grows, and with it what is sent.                       *)
LEMMA PrefixOf ==
    ASSUME NEW B, NEW s \in Seq(B), NEW t \in Seq(B), NEW u \in Seq(B)
    PROVE  /\ IsPrefix(s, s) /\ IsPrefix(s, s \o u)
           /\ IsPrefix(s, t) => IsPrefix(s, t \o u)
<1>1. Len(s) \in Nat /\ Len(t) \in Nat /\ Len(u) \in Nat
  BY LenProperties
<1>2. ASSUME NEW v \in Seq(B), IsPrefix(s, v) PROVE IsPrefix(s, v \o u)
  <2>1. Len(v) \in Nat /\ Len(s) <= Len(v) /\ SubSeq(s, 1, Len(s)) = SubSeq(v, 1, Len(s))
    BY <1>2, LenProperties DEF IsPrefix
  <2>2. Len(v \o u) = Len(v) + Len(u)
    BY ConcatProperties
  <2>3. CASE Len(s) = 0
    <3>1. SubSeq(s, 1, Len(s)) = <<>> /\ SubSeq(v \o u, 1, Len(s)) = <<>>
      BY <2>3, SubSeqEmpty
    <3>2. QED
      BY <1>1, <2>1, <2>2, <3>1 DEF IsPrefix
  <2>4. CASE Len(s) # 0
    <3>1. 1 \in 1..Len(v) /\ Len(s) \in 1..Len(v)
      BY <1>1, <2>1, <2>4
    <3>2. SubSeq(v \o u, 1, Len(s)) = SubSeq(v, 1, Len(s))
      BY <3>1, SubSeqOfConcat1
    <3>3. QED
      BY <1>1, <2>1, <2>2, <3>2 DEF IsPrefix
  <2>5. QED
    BY <2>3, <2>4
<1>3. IsPrefix(s, s)
  BY <1>1 DEF IsPrefix
<1>4. QED
  BY <1>2, <1>3

(* One more turn sends what it is sent as.                                 *)
LEMMA SentGrows ==
    ASSUME NEW s \in Seq(Conversation), NEW m \in Conversation
    PROVE  /\ SentFor(m) \in Seq(Wires) /\ ToOpenAI(s) \in Seq(Wires)
                  /\ Append(s, m) \in Seq(Conversation)
           /\ ToOpenAI(Append(s, m)) = ToOpenAI(s) \o SentFor(m)
           /\ ToOpenAI(Append(s, m)) \in Seq(Wires)
<1>1. Append(s, m) \in Seq(Conversation)
  BY AppendProperties
<1>2. Sends \in Makers(Conversation, Wires) /\ Sends[m] = SentFor(m)
  BY TurnFunctions DEF Sends
<1>3. Spread(Append(s, m), Sends) = Spread(s, Sends) \o SentFor(m)
  BY <1>2, SpreadAppend
<1>4. SentFor(m) \in Seq(Wires)
  BY <1>2 DEF Makers
<1>5. QED
  BY <1>1, <1>3, <1>4, SentIs

(* Every result comes after its call.                                      *)
Wired(sent) ==
    \A j \in DOMAIN sent : sent[j].role = "tool" =>
        \E i \in 1..j - 1 : \E c \in DOMAIN sent[i].calls :
            sent[i].calls[c].id = sent[j].answers
CalledIn(sent, answers) ==
    \E i \in DOMAIN sent : \E c \in DOMAIN sent[i].calls : sent[i].calls[c].id = answers

(* Messages that answer calls which were there before stay in order.       *)
LEMMA WiredConcat ==
    ASSUME NEW a \in Seq(Wires), NEW b \in Seq(Wires), Wired(a),
           \A j \in DOMAIN b : b[j].role = "tool" => CalledIn(a, b[j].answers)
    PROVE  Wired(a \o b)
<1> DEFINE s == a \o b
<1>1. Len(a) \in Nat /\ Len(b) \in Nat /\ DOMAIN a = 1..Len(a) /\ DOMAIN b = 1..Len(b)
  BY LenProperties
<1>2. /\ s \in Seq(Wires) /\ Len(s) = Len(a) + Len(b)
      /\ \A i \in 1..Len(a) + Len(b) : s[i] = IF i <= Len(a) THEN a[i] ELSE b[i - Len(a)]
  BY ConcatProperties
<1> HIDE DEF s
<1>3. DOMAIN s = 1..Len(a) + Len(b)
  BY <1>2, LenProperties
<1>4. ASSUME NEW j \in DOMAIN s, s[j].role = "tool"
      PROVE  \E i \in 1..j - 1 : \E c \in DOMAIN s[i].calls :
                 s[i].calls[c].id = s[j].answers
  <2>1. CASE j <= Len(a)
    <3>1. j \in DOMAIN a /\ s[j] = a[j]
      BY <1>1, <1>2, <1>3, <2>1
    <3>2. PICK i \in 1..j - 1 : \E c \in DOMAIN a[i].calls :
              a[i].calls[c].id = a[j].answers
      BY <1>4, <3>1 DEF Wired
    <3>3. s[i] = a[i]
      BY <1>1, <1>2, <2>1, <3>1, <3>2
    <3>4. QED
      BY <3>1, <3>2, <3>3
  <2>2. CASE j > Len(a)
    <3>1. j - Len(a) \in DOMAIN b /\ s[j] = b[j - Len(a)]
      BY <1>1, <1>2, <1>3, <2>2
    <3>2. CalledIn(a, s[j].answers)
      BY <1>4, <3>1
    <3>3. PICK i \in DOMAIN a : \E c \in DOMAIN a[i].calls :
              a[i].calls[c].id = s[j].answers
      BY <3>2 DEF CalledIn
    <3>4. i \in 1..j - 1 /\ s[i] = a[i]
      BY <1>1, <1>2, <1>3, <2>2, <3>3
    <3>5. QED
      BY <3>3, <3>4
  <2>3. QED
    BY <1>1, <1>3, <2>1, <2>2
<1>5. QED
  BY <1>4 DEF Wired, s

(* What the agent goes on with.                                            *)
ResultsOf(uses) == [i \in DOMAIN uses |-> ToolResult(uses[i].id, <<uses[i].name>>)]

(* The results of calls, with a text, are a turn of the agent.             *)
LEMMA AnsweringTurn ==
    ASSUME NEW uses, Uses(uses), NEW t \in Words, uses = <<>> => t # <<>>
    PROVE  LET m == User(ResultsOf(uses) \o Spoken(t))
           IN  /\ AskTurn(m, ResultsOf(uses), t) /\ m \in Conversation /\ m.blocks # <<>>
                      /\ m.role = "user"
               /\ DOMAIN ResultsOf(uses) = DOMAIN uses
               /\ \A i \in DOMAIN uses : ResultsOf(uses)[i].id = uses[i].id
<1> DEFINE m == User(ResultsOf(uses) \o Spoken(t))
           results == ResultsOf(uses)
<1>1. uses \in Seq(Blocks) /\ Len(uses) \in Nat /\ DOMAIN uses = 1..Len(uses)
          /\ \A i \in 1..Len(uses) : uses[i] \in Blocks
  BY LenProperties, ElementOfSeq DEF Uses
<1>2. /\ DOMAIN results = 1..Len(uses)
      /\ \A i \in 1..Len(uses) : results[i] = ToolResult(uses[i].id, <<uses[i].name>>)
      /\ results = [i \in 1..Len(uses) |-> results[i]]
  BY <1>1 DEF ResultsOf
<1>3. ASSUME NEW i \in 1..Len(uses)
      PROVE  /\ results[i] \in Blocks /\ results[i].id = uses[i].id
             /\ results[i].type = "tool_result" /\ results[i].name = NoName
  <2>1. uses[i].id \in Ids /\ uses[i].name \in Strings
    BY <1>1 DEF Blocks
  <2>2. <<uses[i].name>> \in Words
    BY <2>1, OneOrTwo DEF Words
  <2>3. "tool_result" \in Strings /\ NoName \in Strings
    BY StringsAre
  <2> DEFINE w == <<uses[i].name>>
  <2>4. results[i] = [type |-> "tool_result", text |-> w, id |-> uses[i].id,
            name |-> NoName]
    BY <1>2 DEF ToolResult, Block
  <2> HIDE DEF w
  <2>5. QED
    BY <2>1, <2>2, <2>3, <2>4 DEF w, Blocks
<1> HIDE DEF results
<1>4. results \in Seq(Blocks)
  BY <1>1, <1>2, <1>3, IsSequence
<1>5. Given(results)
  BY <1>2, <1>3, <1>4 DEF Given
<1>6. AskTurn(m, results, t)
  BY <1>5 DEF AskTurn, User, results
<1>7. m \in TurnSet /\ m.role = "user" /\ m.blocks = results \o Spoken(t)
  BY <1>6, AskTurnIs
<1>8. m \in Conversation
  BY <1>6, <1>7 DEF Conversation, Turn
<1>9. m.blocks # <<>>
  <2>1. Spoken(t) \in Seq(Blocks)
    BY SpokenIs
  <2>2. uses = <<>> => Spoken(t) # <<>>
    BY DEF Spoken
  <2>3. uses # <<>> => results # <<>>
    <3>1. uses # <<>> => Len(uses) # 0
      BY <1>1, EmptySeq
    <3>2. results = <<>> => DOMAIN results = {}
      OBVIOUS
    <3>3. QED
      BY <1>1, <1>2, <3>1, <3>2
  <2>4. QED
    BY <1>4, <1>7, <2>1, <2>2, <2>3, ConcatEqualIffEmpty
<1>10. QED
  BY <1>1, <1>2, <1>3, <1>6, <1>7, <1>8, <1>9 DEF results

-----------------------------------------------------------------------------
(* What is sent stays in order when the conversation goes on.              *)
LEMMA AnswerWired ==
    ASSUME NEW s \in Seq(Conversation), Wired(ToOpenAI(s)),
           NEW m \in Conversation, NEW t, NEW uses, AnswerTurn(m, t, uses)
    PROVE  Wired(ToOpenAI(Append(s, m)))
<1> DEFINE w == Message("assistant", t, CallsOf(uses), NoId)
<1>1. SentFor(m) = <<w>> /\ w \in Wires /\ w.role # "tool"
  BY SentForAnswer DEF Message
<1> HIDE DEF w
<1>2. <<w>> \in Seq(Wires) /\ \A j \in DOMAIN <<w>> : <<w>>[j] = w
  BY <1>1, OneOrTwo
<1>3. ToOpenAI(s) \in Seq(Wires) /\ ToOpenAI(Append(s, m)) = ToOpenAI(s) \o <<w>>
  BY <1>1, SentGrows
<1>4. \A j \in DOMAIN <<w>> : <<w>>[j].role = "tool"
          => CalledIn(ToOpenAI(s), <<w>>[j].answers)
  BY <1>1, <1>2
<1>5. QED
  BY <1>2, <1>3, <1>4, WiredConcat

(* The results of the calls of the last answer come after it.              *)
LEMMA AskWired ==
    ASSUME NEW s \in Seq(Conversation), s # <<>>, Wired(ToOpenAI(s)),
           NEW t0, NEW uses, AnswerTurn(Last(s), t0, uses),
           NEW m \in Conversation, NEW t, AskTurn(m, ResultsOf(uses), t)
    PROVE  Wired(ToOpenAI(Append(s, m)))
<1> DEFINE sent == ToOpenAI(s)
           front == ToOpenAI(Front(s))
           w == Message("assistant", t0, CallsOf(uses), NoId)
           lead == Lead(ResultsOf(uses), t)
           tools == ToolsOf(ResultsOf(uses))
<1>1. Front(s) \in Seq(Conversation) /\ Last(s) \in Conversation
          /\ s = Append(Front(s), Last(s))
  BY OtherLast
<1>2. w \in Wires /\ SentFor(Last(s)) = <<w>> /\ w.calls = CallsOf(uses)
  BY SentForAnswer DEF Message
<1>3. sent = front \o <<w>> /\ front \in Seq(Wires) /\ sent \in Seq(Wires)
  <2>1. ToOpenAI(Append(Front(s), Last(s))) = ToOpenAI(Front(s)) \o SentFor(Last(s))
            /\ front \in Seq(Wires)
    BY <1>1, SentGrows
  <2>2. QED
    BY <1>1, <1>2, <2>1, SentIs
<1>4. sent = Append(front, w)
  <2> HIDE DEF w, sent, front
  <2>1. QED
    BY <1>2, <1>3, AppendIsConcat
<1>5. Len(front) + 1 \in DOMAIN sent /\ sent[Len(front) + 1] = w
  <2> HIDE DEF w, sent, front
  <2>1. QED
    BY <1>2, <1>3, <1>4, AppendProperties, LenProperties
<1>6. uses \in Seq(Blocks) /\ DOMAIN CallsOf(uses) = DOMAIN uses
      /\ \A i \in DOMAIN uses :
            CallsOf(uses)[i] = [id |-> uses[i].id, name |-> uses[i].name,
                args |-> uses[i].text]
  <2>1. uses \in Seq(Blocks)
    BY DEF AnswerTurn, Uses
  <2>2. QED
    BY <2>1, CallsOfType
<1>7. \A i \in DOMAIN uses : CalledIn(sent, uses[i].id)
  <2>1. ASSUME NEW i \in DOMAIN uses PROVE w.calls[i].id = uses[i].id
                   /\ i \in DOMAIN w.calls
    BY <1>2, <1>6
  <2> HIDE DEF w, sent, front
  <2>2. QED
    BY <1>5, <2>1 DEF CalledIn
<1>8. /\ SentFor(m) = lead \o tools /\ lead \in Seq(Wires) /\ tools \in Seq(Wires)
      /\ Given(ResultsOf(uses)) /\ ResultsOf(uses) \in Seq(Blocks)
  BY SentForAsk DEF AskTurn, Given
<1>9. \A j \in DOMAIN lead : lead[j].role # "tool"
  <2> DEFINE u == Message(IF ResultsOf(uses) = <<>> \/ t # <<>> THEN "user"
                     ELSE NoRole, t, <<>>, NoId)
  <2>1. u.role # "tool"
    BY DEF Message, NoRole
  <2>2. lead = <<>> \/ lead = <<u>>
    BY DEF Lead
  <2> HIDE DEF u, lead
  <2>3. QED
    BY <2>1, <2>2
<1>10. /\ DOMAIN tools = DOMAIN uses
       /\ \A i \in DOMAIN uses : tools[i].answers = uses[i].id
  <2>1. DOMAIN ResultsOf(uses) = DOMAIN uses
            /\ \A i \in DOMAIN uses : ResultsOf(uses)[i].id = uses[i].id
    BY DEF ResultsOf, ToolResult, Block
  <2>2. /\ DOMAIN tools = DOMAIN ResultsOf(uses)
        /\ \A i \in DOMAIN ResultsOf(uses) :
              tools[i] = Message("tool", ResultsOf(uses)[i].text, <<>>,
                  ResultsOf(uses)[i].id)
    BY <1>8, ToolsOfType
  <2> HIDE DEF tools
  <2>3. QED
    BY <2>1, <2>2 DEF Message
<1> HIDE DEF sent, front, w, lead, tools
<1>11. \A j \in DOMAIN lead : lead[j].role = "tool" => CalledIn(sent, lead[j].answers)
  BY <1>9
<1>12. \A j \in DOMAIN tools : tools[j].role = "tool" => CalledIn(sent, tools[j].answers)
  BY <1>7, <1>10
<1>13. /\ Len(lead) \in Nat /\ Len(tools) \in Nat /\ lead \o tools \in Seq(Wires)
       /\ DOMAIN lead = 1..Len(lead) /\ DOMAIN tools = 1..Len(tools)
       /\ DOMAIN (lead \o tools) = 1..Len(lead) + Len(tools)
       /\ \A i \in 1..Len(lead) + Len(tools) :
             (lead \o tools)[i] = IF i <= Len(lead) THEN lead[i] ELSE tools[i - Len(lead)]
  BY <1>8, ConcatProperties, LenProperties
<1>14. \A j \in DOMAIN (lead \o tools) :
          (lead \o tools)[j].role = "tool" => CalledIn(sent, (lead \o tools)[j].answers)
  <2> DEFINE both == lead \o tools
  <2>1. ASSUME NEW j \in DOMAIN both PROVE both[j].role = "tool"
                   => CalledIn(sent, both[j].answers)
    <3>1. CASE j <= Len(lead)
      <4>1. j \in DOMAIN lead /\ both[j] = lead[j]
        BY <1>13, <3>1
      <4>2. QED
        BY <1>11, <4>1
    <3>2. CASE ~(j <= Len(lead))
      <4>1. j - Len(lead) \in DOMAIN tools /\ both[j] = tools[j - Len(lead)]
        BY <1>13, <3>2
      <4>2. QED
        BY <1>12, <4>1
    <3>3. QED
      BY <3>1, <3>2
  <2>2. QED
    BY <2>1
<1>15. ToOpenAI(Append(s, m)) = sent \o (lead \o tools)
  BY <1>8, SentGrows DEF sent
<1>16. Wired(sent)
  BY DEF sent
<1> DEFINE both == lead \o tools
<1>17. both \in Seq(Wires) /\ \A j \in DOMAIN both : both[j].role = "tool"
           => CalledIn(sent, both[j].answers)
  BY <1>13, <1>14
<1>18. ToOpenAI(Append(s, m)) = sent \o both
  BY <1>15
<1> HIDE DEF both
<1>19. QED
  BY <1>3, <1>16, <1>17, <1>18, WiredConcat

(* The requests that come before the answers of a conversation.            *)
AskedAt(s) ==
    [i \in 1..Len(s) |-> IF s[i].role = "assistant"
        THEN <<ToOpenAI(SubSeq(s, 1, i - 1))>> ELSE <<>>]
RequestsFor(s) == FlattenSeq(AskedAt(s))

(* The requests of a conversation are lists of messages.                   *)
LEMMA AskedAtType ==
    ASSUME NEW s \in Seq(Conversation)
    PROVE  AskedAt(s) \in Seq(Seq(Seq(Wires))) /\ Len(AskedAt(s)) = Len(s)
               /\ RequestsFor(s) \in Seq(Seq(Wires))
<1>1. Len(s) \in Nat /\ AskedAt(s) = [i \in 1..Len(s) |-> AskedAt(s)[i]]
  BY LenProperties DEF AskedAt
<1>2. ASSUME NEW i \in 1..Len(s) PROVE AskedAt(s)[i] \in Seq(Seq(Wires))
  <2> DEFINE r == ToOpenAI(SubSeq(s, 1, i - 1))
  <2>1. SubSeq(s, 1, i - 1) \in Seq(Conversation)
    BY UptoLast
  <2>2. r \in Seq(Wires)
    BY <2>1, SentIs
  <2>3. AskedAt(s)[i] = IF s[i].role = "assistant" THEN <<r>> ELSE <<>>
    BY DEF AskedAt
  <2> HIDE DEF r
  <2>4. QED
    BY <2>2, <2>3, EmptySeq, OneOrTwo
<1>3. AskedAt(s) \in Seq(Seq(Seq(Wires))) /\ Len(AskedAt(s)) = Len(s)
  BY <1>1, <1>2, IsSequence
<1>4. QED
  BY <1>3, FlattenType DEF RequestsFor

(* An answer adds the request it answers.                                  *)
LEMMA RequestsGrow ==
    ASSUME NEW s \in Seq(Conversation), NEW m \in Conversation
    PROVE  RequestsFor(Append(s, m)) =
              IF m.role = "assistant" THEN Append(RequestsFor(s), ToOpenAI(s))
                  ELSE RequestsFor(s)
<1> DEFINE t == Append(s, m)
           last == IF m.role = "assistant" THEN <<ToOpenAI(s)>> ELSE <<>>
<1>1. /\ t \in Seq(Conversation) /\ Len(s) \in Nat /\ Len(t) = Len(s) + 1
             /\ t[Len(s) + 1] = m
      /\ \A i \in 1..Len(s) : t[i] = s[i]
  BY AppendProperties, LenProperties
<1>2. ASSUME NEW i \in 0..Len(s) PROVE SubSeq(t, 1, i) = SubSeq(s, 1, i)
  <2>1. t = s \o <<m>> /\ <<m>> \in Seq(Conversation)
    BY AppendIsConcat, OneOrTwo
  <2>2. CASE i = 0
    BY <2>2, SubSeqEmpty
  <2>3. CASE i # 0
    <3>1. 1 \in 1..Len(s) /\ i \in 1..Len(s)
      BY <1>1, <2>3
    <3> HIDE DEF t
    <3>2. QED
      BY <2>1, <3>1, SubSeqOfConcat1
  <2>4. QED
    BY <2>2, <2>3
<1> HIDE DEF t
<1>3. SubSeq(t, 1, Len(s)) = s
  BY <1>1, <1>2, SubSeqFull
<1>4. ToOpenAI(s) \in Seq(Wires) /\ last \in Seq(Seq(Wires))
  BY SentIs, EmptySeq, OneOrTwo
<1>5. AskedAt(t)[Len(s) + 1] = last
  <2> DEFINE k == Len(s) + 1
  <2>1. k \in 1..Len(t) /\ k - 1 = Len(s) /\ t[k] = m
    BY <1>1
  <2> HIDE DEF k
  <2>2. AskedAt(t)[k] = IF m.role = "assistant" THEN <<ToOpenAI(SubSeq(t, 1, Len(s)))>>
            ELSE <<>>
    BY <2>1 DEF AskedAt
  <2>3. QED
    BY <1>3, <2>2 DEF k
<1>6. \A i \in 1..Len(s) : AskedAt(t)[i] = AskedAt(s)[i]
  <2>1. ASSUME NEW i \in 1..Len(s) PROVE AskedAt(t)[i] = AskedAt(s)[i]
    <3>1. i \in 1..Len(t) /\ i - 1 \in 0..Len(s) /\ t[i] = s[i]
      BY <1>1
    <3>2. SubSeq(t, 1, i - 1) = SubSeq(s, 1, i - 1)
      BY <1>2, <3>1
    <3>3. QED
      BY <3>1, <3>2 DEF AskedAt
  <2>2. QED
    BY <2>1
<1> HIDE DEF last
<1> DEFINE a == AskedAt(s)
           b == AskedAt(t)
<1>7. a \in Seq(Seq(Seq(Wires))) /\ b \in Seq(Seq(Seq(Wires))) /\ Len(a) = Len(s)
          /\ Len(b) = Len(s) + 1
  BY <1>1, AskedAtType
<1>8. b[Len(s) + 1] = last /\ \A i \in 1..Len(s) : b[i] = a[i]
  BY <1>5, <1>6
<1> HIDE DEF a, b
<1>9. b = Append(a, last)
  <2> DEFINE c == Append(a, last)
  <2>1. c \in Seq(Seq(Seq(Wires))) /\ Len(c) = Len(s) + 1 /\ c[Len(s) + 1] = last
            /\ \A i \in 1..Len(s) : c[i] = a[i]
    BY <1>4, <1>7, AppendProperties
  <2> HIDE DEF c
  <2>2. ASSUME NEW i \in 1..Len(b) PROVE b[i] = c[i]
    <3>1. i = Len(s) + 1 \/ i \in 1..Len(s)
      BY <1>1, <1>7
    <3>2. QED
      BY <1>8, <2>1, <3>1
  <2>3. b = c
    BY <1>7, <2>1, <2>2, SeqEqual
  <2>4. QED
    BY <2>3 DEF c
<1>10. FlattenSeq(b) = FlattenSeq(a) \o last /\ FlattenSeq(a) \in Seq(Seq(Wires))
  BY <1>4, <1>7, <1>9, FlattenAppend, FlattenType
<1> DEFINE f == FlattenSeq(a)
           r == ToOpenAI(s)
<1>11. f \in Seq(Seq(Wires)) /\ r \in Seq(Wires)
  BY <1>4, <1>10
<1>12. RequestsFor(t) = f \o last /\ RequestsFor(s) = f /\ last = IF m.role = "assistant"
           THEN <<r>> ELSE <<>>
  BY <1>10 DEF RequestsFor, a, b, last
<1> HIDE DEF f, r
<1>13. f \o <<r>> = Append(f, r) /\ f \o <<>> = f
  BY <1>11, AppendIsConcat, ConcatEmptySeq
<1>14. QED
  BY <1>12, <1>13 DEF r, t

-----------------------------------------------------------------------------
(* The recording.                                                          *)
Entries == [messages : Seq(Wires), answered : BOOLEAN]
RequestOf == [e \in Entries |-> IF e.answered THEN <<e.messages>> ELSE <<>>]

(* A post records a request without an answer.                             *)
LEMMA EntriesPosted ==
    ASSUME NEW es \in Seq(Entries), NEW r \in Seq(Wires)
    PROVE  LET e == [messages |-> r, answered |-> FALSE]
           IN  /\ e \in Entries /\ Append(es, e) \in Seq(Entries) /\ Append(es, e) # <<>>
               /\ Last(Append(es, e)) = e
               /\ Spread(Append(es, e), RequestOf) = Spread(es, RequestOf)
               /\ \A k \in DOMAIN Append(es, e) : k \in DOMAIN es \/ Append(es, e)[k] = e
               /\ \A k \in DOMAIN es : Append(es, e)[k] = es[k]
<1> DEFINE e == [messages |-> r, answered |-> FALSE]
           new == Append(es, e)
<1>1. e \in Entries /\ RequestOf[e] = <<>> /\ RequestOf \in Makers(Entries, Seq(Wires))
  <2>1. e \in Entries /\ RequestOf[e] = <<>>
    BY DEF Entries, RequestOf
  <2>2. \A x \in Entries : (IF x.answered THEN <<x.messages>>
            ELSE <<>>) \in Seq(Seq(Wires))
    BY EmptySeq, OneOrTwo DEF Entries
  <2>3. QED
    BY <2>1, <2>2 DEF RequestOf, Makers
<1> HIDE DEF e
<1>2. Spread(es, RequestOf) \in Seq(Seq(Wires))
  BY <1>1, SpreadType
<1>3. Spread(new, RequestOf) = Spread(es, RequestOf) \o <<>>
  BY <1>1, SpreadAppend
<1>4. Spread(new, RequestOf) = Spread(es, RequestOf)
  BY <1>2, <1>3, ConcatEmptySeq
<1>5. /\ new \in Seq(Entries) /\ new # <<>> /\ Len(new) = Len(es) + 1
             /\ new[Len(es) + 1] = e
      /\ \A k \in 1..Len(es) : new[k] = es[k]
  BY <1>1, AppendProperties
<1> HIDE DEF new
<1>6. Len(es) \in Nat /\ DOMAIN es = 1..Len(es) /\ DOMAIN new = 1..Len(es) + 1
  BY <1>5, LenProperties
<1>7. QED
  BY <1>1, <1>4, <1>5, <1>6 DEF e, new, Last

(* The answer is marked at the last of them.                               *)
LEMMA EntriesMarked ==
    ASSUME NEW es \in Seq(Entries), es # <<>>, ~Last(es).answered
    PROVE  LET new == [es EXCEPT ![Len(es)].answered = TRUE]
           IN  /\ new \in Seq(Entries) /\ DOMAIN new = DOMAIN es
               /\ \A k \in DOMAIN es : new[k].messages = es[k].messages
               /\ Spread(new, RequestOf)
                      = Append(Spread(es, RequestOf), Last(es).messages)
<1> DEFINE e == Last(es)
           d == [e EXCEPT !.answered = TRUE]
           new == [es EXCEPT ![Len(es)] = d]
           front == Front(es)
<1>1. e \in Entries /\ front \in Seq(Entries) /\ Len(es) \in Nat \ {0}
          /\ es = Append(front, e)
  BY OtherLast
<1>2. d \in Entries /\ d.messages = e.messages /\ d.answered = TRUE
          /\ e.messages \in Seq(Wires)
  BY <1>1 DEF Entries
<1>3. new = [es EXCEPT ![Len(es)].answered = TRUE]
  BY DEF Last
<1>4. RequestOf \in Makers(Entries, Seq(Wires)) /\ RequestOf[e] = <<>>
          /\ RequestOf[d] = <<e.messages>>
  <2>1. \A x \in Entries : (IF x.answered THEN <<x.messages>>
            ELSE <<>>) \in Seq(Seq(Wires))
    BY EmptySeq, OneOrTwo DEF Entries
  <2>2. RequestOf \in Makers(Entries, Seq(Wires))
    BY <2>1 DEF RequestOf, Makers
  <2>3. QED
    BY <1>1, <1>2, <2>2 DEF RequestOf
<1> HIDE DEF d
<1>5. new = Append(front, d)
  BY <1>2, OtherLast
<1>6. new \in Seq(Entries) /\ Len(new) = Len(es)
          /\ \A j \in 1..Len(es) : new[j] = IF j = Len(es) THEN d ELSE es[j]
  BY <1>1, <1>2, ExceptSeq
<1>7. DOMAIN es = 1..Len(es) /\ e = es[Len(es)]
  BY LenProperties DEF Last
<1> HIDE DEF new, e, front
<1>8. DOMAIN new = DOMAIN es /\ \A k \in DOMAIN es : new[k].messages = es[k].messages
  BY <1>2, <1>6, <1>7, LenProperties
<1>9. /\ Spread(es, RequestOf) = Spread(front, RequestOf) \o <<>>
      /\ Spread(new, RequestOf) = Spread(front, RequestOf) \o <<e.messages>>
      /\ Spread(front, RequestOf) \in Seq(Seq(Wires))
  <2>1. Spread(Append(front, e), RequestOf) = Spread(front, RequestOf) \o RequestOf[e]
    BY <1>1, <1>4, SpreadAppend
  <2>2. Spread(Append(front, d), RequestOf) = Spread(front, RequestOf) \o RequestOf[d]
    BY <1>1, <1>2, <1>4, SpreadAppend
  <2>3. Spread(front, RequestOf) \in Seq(Seq(Wires))
    BY <1>1, <1>4, SpreadType
  <2>4. QED
    BY <1>1, <1>4, <1>5, <2>1, <2>2, <2>3
<1> DEFINE f == Spread(front, RequestOf)
<1>10. f \in Seq(Seq(Wires)) /\ Spread(es, RequestOf) = f \o <<>>
           /\ Spread(new, RequestOf) = f \o <<e.messages>>
  BY <1>9
<1> HIDE DEF f
<1>11. f \o <<>> = f /\ f \o <<e.messages>> = Append(f, e.messages)
  BY <1>2, <1>10, AppendIsConcat, ConcatEmptySeq
<1>12. Spread(new, RequestOf) = Append(Spread(es, RequestOf), e.messages)
  BY <1>10, <1>11
<1>13. QED
  BY <1>3, <1>6, <1>8, <1>12 DEF e

(* What was recorded, and the conversation.                                *)
RecInv ==
    /\ conv \in Seq(Conversation) /\ conv # <<>> /\ conv[1].role = "user"
    /\ \A i \in DOMAIN conv : conv[i].blocks # <<>>
    /\ pc = "answered" => Last(conv).role = "assistant"
    /\ Wired(ToOpenAI(conv))
    /\ entries \in Seq(Entries)
    /\ \A k \in DOMAIN entries : IsPrefix(entries[k].messages, ToOpenAI(conv))
    /\ Spread(entries, RequestOf) = RequestsFor(conv)
    /\ pc \in {"upstream", "answering"} =>
          entries # <<>> /\ Last(entries)
              = [messages |-> ToOpenAI(conv), answered |-> FALSE]

(* The agent reads events.                                                 *)
LEMMA ReadType == StreamInv /\ pc = "answering" => Read(Events) \in Seq(StreamEvents)
<1> SUFFICES ASSUME StreamInv, pc = "answering" PROVE Read(Events) \in Seq(StreamEvents)
  OBVIOUS
<1>1. Events = AnswerOf(chunks)
  BY DEF Events, AnswerOf, Body
<1>2. CASE broken
  <2>1. AllPieces(chunks, Len(reply.calls))
    BY <1>2 DEF StreamInv
  <2>2. QED
    BY <1>1, <2>1, OnlyBlocks, BrokenRead
<1>3. CASE ~broken
  <2>1. PICK sent : Whole(sent, reply) /\ chunks = sent \o Closing(reply)
    BY <1>3 DEF StreamInv
  <2>2. AllPieces(sent, Len(reply.calls))
    BY <2>1 DEF Whole
  <2>3. QED
    BY <1>1, <2>1, <2>2, WholeAnswer
<1>4. QED
  BY <1>2, <1>3

(* The prompt is a turn, and asks nothing before it.                       *)
LEMMA FirstTurn ==
    /\ <<Prompt>> \in Seq(Conversation) /\ Prompt.blocks # <<>> /\ Prompt.role = "user"
    /\ Wired(ToOpenAI(<<Prompt>>)) /\ RequestsFor(<<Prompt>>) = <<>>
<1> DEFINE t == <<"prompt">>
           none == ResultsOf(<<>>)
<1>1. t \in Words /\ t # <<>> /\ Spoken(t) = <<Text(t)>>
  BY StringsAre, OneOrTwo DEF Words, Spoken
<1>2. Uses(<<>>) /\ none = <<>>
  BY EmptySeq DEF Uses, ResultsOf
<1>3. Spoken(t) \in Seq(Blocks) /\ <<>> \o Spoken(t) = Spoken(t)
  BY <1>1, SpokenIs, ConcatEmptySeq
<1>4. Prompt = User(none \o Spoken(t))
  BY <1>1, <1>2, <1>3 DEF Prompt
<1> HIDE DEF t
<1>5. AskTurn(Prompt, none, t) /\ Prompt \in Conversation /\ Prompt.blocks # <<>>
          /\ Prompt.role = "user"
  BY <1>1, <1>2, <1>4, AnsweringTurn
<1>6. SentFor(Prompt) = Lead(none, t) \o ToolsOf(none) /\ Lead(none, t) \in Seq(Wires)
          /\ ToolsOf(none) = <<>>
  BY <1>2, <1>5, SentForAsk DEF ToolsOf
<1>7. SentFor(Prompt) = Lead(none, t)
  BY <1>6, ConcatEmptySeq
<1>8. <<>> \in Seq(Conversation) /\ Append(<<>>, Prompt) = <<Prompt>>
  BY EmptySeq
<1>9. Sends \in Makers(Conversation, Wires)
  BY TurnFunctions
<1>10. ToOpenAI(<<Prompt>>) = SentFor(Prompt) /\ <<Prompt>> \in Seq(Conversation)
  <2>1. <<Prompt>> \in Seq(Conversation)
    BY <1>5, OneOrTwo
  <2>2. Spread(<<Prompt>>, Sends) = Sends[Prompt]
    BY <1>5, <1>9, SpreadOne
  <2>3. QED
    BY <1>5, <2>1, <2>2, SentIs DEF Sends
<1>11. Wired(ToOpenAI(<<Prompt>>))
  <2> DEFINE w == Message(IF none = <<>> \/ t # <<>> THEN "user"
                     ELSE NoRole, t, <<>>, NoId)
  <2>1. w.role # "tool"
    BY DEF Message, NoRole
  <2>2. ToOpenAI(<<Prompt>>) = <<w>> \/ ToOpenAI(<<Prompt>>) = <<>>
    BY <1>7, <1>10 DEF Lead
  <2> HIDE DEF w
  <2>3. QED
    BY <2>1, <2>2 DEF Wired
<1>12. RequestsFor(<<Prompt>>) = <<>>
  <2>1. RequestsFor(<<>>) = <<>>
    <3>1. AskedAt(<<>>) = <<>>
      BY EmptySeq DEF AskedAt
    <3>2. QED
      BY <3>1, FlattenNone DEF RequestsFor
  <2>2. RequestsFor(Append(<<>>, Prompt)) = RequestsFor(<<>>)
    BY <1>5, <1>8, RequestsGrow
  <2>3. QED
    BY <1>8, <2>1, <2>2
<1>13. QED
  BY <1>5, <1>10, <1>11, <1>12

(* The invariant of the recording in the first state,                      *)
LEMMA RecInit == SessionInit => RecInv
<1> SUFFICES ASSUME SessionInit PROVE RecInv
  OBVIOUS
<1>1. conv = <<Prompt>> /\ entries = <<>> /\ pc = "asking"
  BY DEF SessionInit
<1>2. Spread(entries, RequestOf) = <<>> /\ entries \in Seq(Entries) /\ conv # <<>>
  BY <1>1, SpreadNone, EmptySeq
<1>3. conv[1].role = "user" /\ \A i \in DOMAIN conv : conv[i].blocks # <<>>
  BY <1>1, FirstTurn
<1>4. \A k \in DOMAIN entries : FALSE
  BY <1>1
<1>5. QED
  BY <1>1, <1>2, <1>3, <1>4, FirstTurn DEF RecInv

-----------------------------------------------------------------------------
(* when an answer is delivered,                                            *)
LEMMA DeliverRecords == StreamInv /\ RecInv /\ Deliver => RecInv'
<1> SUFFICES ASSUME StreamInv, RecInv, Deliver PROVE RecInv'
  OBVIOUS
<1> DEFINE got == Gathered(Read(Events))
           m == [role |-> "assistant", blocks |-> got]
           sent == ToOpenAI(conv)
<1>1. pc = "answering"
  BY DEF Deliver
<1>2. /\ conv \in Seq(Conversation) /\ conv # <<>> /\ conv[1].role = "user"
             /\ \A i \in DOMAIN conv : conv[i].blocks # <<>>
      /\ Wired(sent) /\ entries \in Seq(Entries)
      /\ \A k \in DOMAIN entries : IsPrefix(entries[k].messages, sent)
      /\ Spread(entries, RequestOf) = RequestsFor(conv)
      /\ entries # <<>> /\ Last(entries) = [messages |-> sent, answered |-> FALSE]
  BY <1>1 DEF RecInv
<1>3. CASE got = <<>>
  <2>1. pc' = "asking" /\ conv' = conv /\ entries' = entries
    BY <1>3 DEF Deliver
  <2>2. QED
    BY <2>1 DEF RecInv
<1>4. CASE got # <<>>
  <2>1. conv' = Append(conv, m) /\ pc' = "answered"
        /\ entries' = [entries EXCEPT ![Len(entries)].answered = TRUE]
    BY <1>4 DEF Deliver
  <2>2. \E t, uses : AnswerTurn(m, t, uses)
    BY <1>1, ReadType, GatheredTurn
  <2>3. PICK t, uses : AnswerTurn(m, t, uses)
    BY <2>2
  <2>4. m \in Conversation /\ m.role = "assistant" /\ m.blocks # <<>>
    BY <1>4, <2>3, AnswerTurnIs DEF Conversation, Turn
  <2> HIDE DEF m
  <2>5. Wired(ToOpenAI(conv'))
    BY <1>2, <2>1, <2>3, <2>4, AnswerWired
  <2>6. /\ conv' \in Seq(Conversation) /\ SentFor(m) \in Seq(Wires)
        /\ ToOpenAI(conv') = sent \o SentFor(m) /\ sent \in Seq(Wires)
    BY <1>2, <2>1, <2>4, SentGrows
  <2>7. /\ conv' # <<>> /\ Len(conv') = Len(conv) + 1 /\ conv'[Len(conv) + 1] = m
        /\ \A i \in 1..Len(conv) : conv'[i] = conv[i]
    BY <1>2, <2>1, <2>4, AppendProperties
  <2>8. conv'[1].role = "user" /\ Last(conv').role = "assistant"
            /\ \A i \in DOMAIN conv' : conv'[i].blocks # <<>>
    <3>1. Len(conv) \in Nat /\ DOMAIN conv = 1..Len(conv)
              /\ DOMAIN conv' = 1..Len(conv) + 1
      BY <1>2, <2>6, <2>7, LenProperties
    <3>2. 1 \in 1..Len(conv)
      BY <1>2, <3>1, EmptySeq
    <3>3. QED
      BY <1>2, <2>4, <2>7, <3>1, <3>2 DEF Last
  <2>9. ~Last(entries).answered /\ Last(entries).messages = sent
    BY <1>2
  <2> HIDE DEF sent
  <2>10. /\ entries' \in Seq(Entries) /\ DOMAIN entries' = DOMAIN entries
         /\ \A k \in DOMAIN entries : entries'[k].messages = entries[k].messages
         /\ Spread(entries', RequestOf) = Append(Spread(entries, RequestOf), sent)
    BY <1>2, <2>1, <2>9, EntriesMarked
  <2>11. RequestsFor(conv') = Append(RequestsFor(conv), sent)
    BY <1>2, <2>1, <2>4, RequestsGrow DEF sent
  <2>12. \A k \in DOMAIN entries' : IsPrefix(entries'[k].messages, ToOpenAI(conv'))
    <3>1. \A k \in DOMAIN entries : entries[k].messages \in Seq(Wires)
      <4>1. \A k \in DOMAIN entries : entries[k] \in Entries
        BY <1>2, LenProperties, ElementOfSeq
      <4>2. QED
        BY <4>1 DEF Entries
    <3>2. QED
      BY <1>2, <2>6, <2>10, <3>1, PrefixOf
  <2>13. QED
    BY <1>2, <2>1, <2>5, <2>6, <2>7, <2>8, <2>10, <2>11, <2>12 DEF RecInv
<1>5. QED
  BY <1>3, <1>4

(* when the agent goes on,                                                 *)
LEMMA GoOnRecords == RecInv /\ GoOn => RecInv'
<1> SUFFICES ASSUME RecInv, GoOn PROVE RecInv'
  OBVIOUS
<1> DEFINE sent == ToOpenAI(conv)
<1>1. pc = "answered" /\ pc' = "asking" /\ entries' = entries
  BY DEF GoOn
<1>2. /\ conv \in Seq(Conversation) /\ conv # <<>> /\ conv[1].role = "user"
             /\ \A i \in DOMAIN conv : conv[i].blocks # <<>>
      /\ Wired(sent) /\ entries \in Seq(Entries) /\ Last(conv).role = "assistant"
      /\ \A k \in DOMAIN entries : IsPrefix(entries[k].messages, sent)
      /\ Spread(entries, RequestOf) = RequestsFor(conv)
  BY <1>1 DEF RecInv
<1>3. Last(conv) \in Conversation
  BY <1>2, OtherLast
<1>4. \E t, uses : AnswerTurn(Last(conv), t, uses)
  <2>1. ~ \E results, t : AskTurn(Last(conv), results, t)
    BY <1>2, AskTurnIs
  <2>2. QED
    BY <1>3, <2>1 DEF Conversation, Turn
<1>5. PICK t0, uses : AnswerTurn(Last(conv), t0, uses)
  BY <1>4
<1>6. Calls = uses /\ Uses(uses) /\ Results = ResultsOf(uses)
  BY <1>5, AnswerTurnIs DEF Calls, Results, ResultsOf, AnswerTurn
<1>7. PICK more \in IF Calls = <<>> THEN {Prompt.blocks}
          ELSE {<<>>, <<Text(<<"reminder">>)>>} :
         conv' = Append(conv, User(Results \o more))
  BY DEF GoOn
<1>8. \E t \in Words : more = Spoken(t) /\ (uses = <<>> => t # <<>>)
  <2>1. <<"prompt">> \in Words /\ <<"reminder">> \in Words /\ <<>> \in Words
        /\ <<"prompt">> # <<>> /\ <<"reminder">> # <<>>
    BY StringsAre, OneOrTwo, EmptySeq DEF Words
  <2>2. Spoken(<<"prompt">>) = Prompt.blocks
    BY <2>1 DEF Spoken, Prompt, User
  <2>3. Spoken(<<"reminder">>) = <<Text(<<"reminder">>)>> /\ Spoken(<<>>) = <<>>
    BY <2>1 DEF Spoken
  <2>4. QED
    BY <1>6, <1>7, <2>1, <2>2, <2>3
<1>9. PICK t \in Words : more = Spoken(t) /\ (uses = <<>> => t # <<>>)
  BY <1>8
<1> DEFINE m == User(ResultsOf(uses) \o Spoken(t))
<1>10. AskTurn(m, ResultsOf(uses), t) /\ m \in Conversation /\ m.blocks # <<>>
           /\ m.role = "user"
  BY <1>6, <1>9, AnsweringTurn
<1>11. conv' = Append(conv, m)
  BY <1>6, <1>7, <1>9
<1> HIDE DEF m
<1>12. Wired(ToOpenAI(conv'))
  BY <1>2, <1>5, <1>10, <1>11, AskWired
<1>13. /\ conv' \in Seq(Conversation) /\ SentFor(m) \in Seq(Wires)
       /\ ToOpenAI(conv') = sent \o SentFor(m) /\ sent \in Seq(Wires)
  BY <1>2, <1>10, <1>11, SentGrows
<1>14. /\ conv' # <<>> /\ Len(conv') = Len(conv) + 1 /\ conv'[Len(conv) + 1] = m
       /\ \A i \in 1..Len(conv) : conv'[i] = conv[i]
  BY <1>2, <1>10, <1>11, AppendProperties
<1>15. conv'[1].role = "user" /\ \A i \in DOMAIN conv' : conv'[i].blocks # <<>>
  <2>1. Len(conv) \in Nat /\ DOMAIN conv = 1..Len(conv) /\ DOMAIN conv' = 1..Len(conv) + 1
    BY <1>2, <1>13, <1>14, LenProperties
  <2>2. 1 \in 1..Len(conv)
    BY <1>2, <2>1, EmptySeq
  <2>3. QED
    BY <1>2, <1>10, <1>14, <2>1, <2>2
<1> HIDE DEF sent
<1>16. RequestsFor(conv') = RequestsFor(conv)
  BY <1>2, <1>10, <1>11, RequestsGrow
<1>17. \A k \in DOMAIN entries : IsPrefix(entries[k].messages, ToOpenAI(conv'))
  <2>1. \A k \in DOMAIN entries : entries[k] \in Entries
    BY <1>2, LenProperties, ElementOfSeq
  <2>2. \A k \in DOMAIN entries : entries[k].messages \in Seq(Wires)
    BY <2>1 DEF Entries
  <2>3. QED
    BY <1>2, <1>13, <2>2, PrefixOf
<1>18. QED
  BY <1>1, <1>2, <1>12, <1>13, <1>14, <1>15, <1>16, <1>17 DEF RecInv

(* in every step,                                                          *)
LEMMA RecStep == StreamInv /\ RecInv /\ [SessionNext]_sessionVars => RecInv'
<1> SUFFICES ASSUME StreamInv, RecInv, [SessionNext]_sessionVars PROVE RecInv'
  OBVIOUS
<1>1. CASE Post
  <2> DEFINE sent == ToOpenAI(conv)
             e == [messages |-> sent, answered |-> FALSE]
  <2>1. pc' = "upstream" /\ conv' = conv /\ entries' = Append(entries, e)
    BY <1>1 DEF Post
  <2>2. /\ conv \in Seq(Conversation) /\ entries \in Seq(Entries)
        /\ \A k \in DOMAIN entries : IsPrefix(entries[k].messages, sent)
        /\ Spread(entries, RequestOf) = RequestsFor(conv)
    BY DEF RecInv
  <2>3. sent \in Seq(Wires)
    BY <2>2, SentIs
  <2>4. /\ entries' \in Seq(Entries) /\ entries' # <<>> /\ Last(entries') = e
        /\ Spread(entries', RequestOf) = Spread(entries, RequestOf)
        /\ \A k \in DOMAIN entries' : k \in DOMAIN entries \/ entries'[k] = e
        /\ \A k \in DOMAIN entries : entries'[k] = entries[k]
    <3> HIDE DEF sent
    <3>1. QED
      BY <2>1, <2>2, <2>3, EntriesPosted
  <2>5. IsPrefix(sent, sent)
    BY <2>3, PrefixOf
  <2>6. \A k \in DOMAIN entries' : IsPrefix(entries'[k].messages, sent)
    <3> HIDE DEF sent
    <3>1. QED
      BY <2>2, <2>4, <2>5
  <2>7. QED
    BY <2>1, <2>2, <2>4, <2>6 DEF RecInv
<1>2. CASE NextChunk
  BY <1>2 DEF NextChunk, RecInv
<1>3. CASE UpstreamEnds
  BY <1>3 DEF UpstreamEnds, RecInv
<1>4. CASE UpstreamFails
  BY <1>4 DEF UpstreamFails, RecInv
<1>5. CASE Deliver
  BY <1>5, DeliverRecords
<1>6. CASE GoOn
  BY <1>6, GoOnRecords
<1>7. CASE EndSession
  BY <1>7 DEF EndSession, RecInv
<1>8. CASE TraceConvert
  BY <1>8 DEF TraceConvert, RecInv
<1>9. CASE Ended \/ UNCHANGED sessionVars
  BY <1>9 DEF Ended, sessionVars, RecInv
<1>10. QED
  BY <1>1, <1>2, <1>3, <1>4, <1>5, <1>6, <1>7, <1>8, <1>9 DEF SessionNext

(* and what it says of a request.                                          *)
LEMMA RecKeeps == RecInv => NothingIsLost
<1> SUFFICES ASSUME RecInv, pc = "upstream"
             PROVE  LET sent == Last(entries).messages
                    IN  /\ \A type \in {"text", "tool_use", "tool_result"} :
                              All(type, ToAnthropic(sent)) = All(type, conv)
                        /\ Wired(sent)
                        /\ \A k \in DOMAIN entries : IsPrefix(entries[k].messages, sent)
  BY DEF NothingIsLost, Wired
<1>1. Last(entries).messages = ToOpenAI(conv) /\ conv \in Seq(Conversation)
  BY DEF RecInv
<1>2. \A type \in {"text", "tool_use", "tool_result"} :
          All(type, ToAnthropic(ToOpenAI(conv))) = All(type, conv)
  BY <1>1, CarriedBack
<1>3. QED
  BY <1>1, <1>2 DEF RecInv

(* Nothing of a conversation gets lost on its way upstream, a result comes *)
(* after its call, and every request extends those before it.              *)
THEOREM NothingGetsLost == SessionSpec => []NothingIsLost
<1>1. SessionInit => StreamInv /\ RecInv
  BY StreamInit, RecInit
<1>2. StreamInv /\ RecInv /\ [SessionNext]_sessionVars => (StreamInv /\ RecInv)'
  BY StreamStep, RecStep
<1>3. SessionSpec => [](StreamInv /\ RecInv)
  BY <1>1, <1>2, PTL DEF SessionSpec
<1>4. QED
  BY <1>3, RecKeeps, PTL

-----------------------------------------------------------------------------
(* What was recorded with an answer.                                       *)
LEMMA RequestsAre ==
    ASSUME NEW es \in Seq(Entries)
    PROVE  LET kept == Filter(es, LAMBDA e : e.answered)
           IN  [i \in DOMAIN kept |-> kept[i].messages] = Spread(es, RequestOf)
<1> DEFINE one == [e \in Entries |-> IF e.answered THEN <<e>> ELSE <<>>]
           asked == [e \in Entries |-> <<e.messages>>]
           kept == Filter(es, LAMBDA e : e.answered)
           r == [i \in DOMAIN kept |-> kept[i].messages]
<1>1. \A e \in Entries : e.messages \in Seq(Wires)
  BY DEF Entries
<1>2. one \in Makers(Entries, Entries) /\ asked \in Makers(Entries, Seq(Wires))
      /\ RequestOf \in Makers(Entries, Seq(Wires))
  <2>1. \A e \in Entries : (IF e.answered THEN <<e>> ELSE <<>>) \in Seq(Entries)
    BY EmptySeq, OneOrTwo
  <2>2. \A e \in Entries : <<e.messages>> \in Seq(Seq(Wires))
    BY <1>1, OneOrTwo
  <2>3. \A e \in Entries : (IF e.answered THEN <<e.messages>>
            ELSE <<>>) \in Seq(Seq(Wires))
    BY <2>2, EmptySeq
  <2>4. QED
    BY <2>1, <2>2, <2>3 DEF Makers, RequestOf
<1>3. \A i \in DOMAIN es : es[i] \in Entries
  BY LenProperties, ElementOfSeq
<1>4. kept = Spread(es, one)
  <2>1. [i \in DOMAIN es |-> IF es[i].answered THEN <<es[i]>> ELSE <<>>]
            = [i \in DOMAIN es |-> one[es[i]]]
    BY <1>3
  <2> HIDE DEF one
  <2>2. QED
    BY <2>1 DEF Filter, Spread
<1>5. \A e \in Entries : asked[e] = <<e.messages>> /\ RequestOf[e] = IF e.answered
          THEN <<e.messages>> ELSE <<>>
  BY DEF RequestOf
<1>6. \A e \in Entries : one[e] = IF e.answered THEN <<e>> ELSE <<>>
  OBVIOUS
<1>7. DOMAIN r = DOMAIN kept /\ \A i \in DOMAIN kept : r[i] = kept[i].messages
  OBVIOUS
<1> HIDE DEF one, asked
<1>8. kept \in Seq(Entries)
  BY <1>2, <1>4, SpreadType
<1> HIDE DEF kept
<1>9. Len(kept) \in Nat /\ DOMAIN kept = 1..Len(kept)
          /\ \A i \in 1..Len(kept) : kept[i] \in Entries
  BY <1>8, LenProperties, ElementOfSeq
<1>10. r \in Seq(Seq(Wires)) /\ Len(r) = Len(kept)
  <2>1. r = [i \in 1..Len(kept) |-> r[i]] /\ \A i \in 1..Len(kept) : r[i] \in Seq(Wires)
    BY <1>1, <1>7, <1>9
  <2> HIDE DEF r
  <2>2. QED
    BY <1>9, <2>1, IsSequence
<1> HIDE DEF r
<1>11. Maps(asked, kept, r)
  BY <1>5, <1>7, <1>9, <1>10 DEF Maps
<1>12. Spread(kept, asked) = r
  BY <1>8, <1>10, <1>11, SpreadList
<1>13. ASSUME NEW j \in DOMAIN es PROVE RequestOf[es[j]] = Spread(one[es[j]], asked)
  <2>1. es[j] \in Entries
    BY <1>3
  <2>2. CASE es[j].answered
    <3>1. one[es[j]] = <<es[j]>> /\ RequestOf[es[j]] = asked[es[j]]
      BY <1>5, <1>6, <2>1, <2>2
    <3>2. QED
      BY <1>2, <2>1, <3>1, SpreadOne
  <2>3. CASE ~es[j].answered
    BY <1>5, <1>6, <2>1, <2>3, SpreadNone
  <2>4. QED
    BY <2>2, <2>3
<1>14. Spread(Spread(es, one), asked) = Spread(es, RequestOf)
  BY <1>2, <1>13, SpreadTwice
<1>15. QED
  BY <1>4, <1>12, <1>14 DEF r, kept

(* What is taken of some of n positions, and which.                        *)
Taken(n, P, g) == FlattenSeq([i \in 1..n |-> IF i \in P THEN <<g[i]>> ELSE <<>>])
Chosen(n, P) == Taken(n, P, [i \in Nat |-> i])

Covers(g, n, B) == \A i \in 1..n : g[i] \in B

(* One more position adds at most what is there.                           *)
LEMMA TakenGrows ==
    ASSUME NEW n \in Nat \ {0}, NEW P, NEW g, NEW B, Covers(g, n, B)
    PROVE  /\ Taken(n, P, g) \in Seq(B) /\ Taken(n - 1, P, g) \in Seq(B)
           /\ Taken(n, P, g) = IF n \in P THEN Append(Taken(n - 1, P, g), g[n])
                  ELSE Taken(n - 1, P, g)
<1> USE DEF Covers
<1> DEFINE part(k) == [i \in 1..k |-> IF i \in P THEN <<g[i]>> ELSE <<>>]
           last == IF n \in P THEN <<g[n]>> ELSE <<>>
<1>1. ASSUME NEW k \in 0..n PROVE part(k) \in Seq(Seq(B)) /\ Len(part(k)) = k
  <2> DEFINE s == part(k)
  <2>1. s = [i \in 1..k |-> s[i]]
    OBVIOUS
  <2>2. ASSUME NEW i \in 1..k PROVE s[i] \in Seq(B)
    <3>1. g[i] \in B /\ s[i] = IF i \in P THEN <<g[i]>> ELSE <<>>
      OBVIOUS
    <3> HIDE DEF s, Covers
    <3>2. QED
      BY <3>1, EmptySeq, OneOrTwo
  <2> HIDE DEF s, Covers
  <2>3. s \in Seq(Seq(B)) /\ Len(s) = k
    BY <2>1, <2>2, IsSequence
  <2>4. QED
    BY <2>3 DEF s
<1>3. last \in Seq(B) /\ g[n] \in B
  BY EmptySeq, OneOrTwo
<1> DEFINE a == part(n - 1)
           b == part(n)
<1>4. a \in Seq(Seq(B)) /\ b \in Seq(Seq(B)) /\ Len(a) = n - 1 /\ Len(b) = n
  <2>1. n - 1 \in 0..n /\ n \in 0..n
    OBVIOUS
  <2> HIDE DEF part
  <2>2. QED
    BY <1>1, <2>1
<1>5. b[n] = last /\ \A i \in 1..n - 1 : b[i] = a[i]
  OBVIOUS
<1>6. Taken(n, P, g) = FlattenSeq(b) /\ Taken(n - 1, P, g) = FlattenSeq(a)
  BY DEF Taken
<1> HIDE DEF a, b, last
<1>7. b = Append(a, last)
  <2> DEFINE c == Append(a, last)
  <2>1. c \in Seq(Seq(B)) /\ Len(c) = n /\ c[n] = last /\ \A i \in 1..n - 1 : c[i] = a[i]
    BY <1>3, <1>4, AppendProperties
  <2> HIDE DEF c
  <2>2. ASSUME NEW i \in 1..Len(b) PROVE b[i] = c[i]
    BY <1>4, <1>5, <2>1
  <2>3. QED
    BY <1>4, <2>1, <2>2, SeqEqual DEF c
<1>8. FlattenSeq(b) = FlattenSeq(a) \o last /\ FlattenSeq(a) \in Seq(B)
          /\ FlattenSeq(b) \in Seq(B)
  BY <1>3, <1>4, <1>7, FlattenAppend, FlattenType
<1> DEFINE f == FlattenSeq(a)
           x == g[n]
<1>9. f \in Seq(B) /\ x \in B /\ last = IF n \in P THEN <<x>> ELSE <<>>
  BY <1>3, <1>8 DEF last
<1>10. Taken(n, P, g) = f \o last /\ Taken(n - 1, P, g) = f
  BY <1>6, <1>8
<1> HIDE DEF f, x
<1>11. f \o <<x>> = Append(f, x) /\ f \o <<>> = f
  BY <1>9, AppendIsConcat, ConcatEmptySeq
<1>12. QED
  BY <1>6, <1>8, <1>9, <1>10, <1>11 DEF x

-----------------------------------------------------------------------------
(* The positions go up.                                                    *)
Picks(t, c, n, P, g) ==
    /\ c \in Seq(1..n) /\ Len(t) = Len(c)
    /\ \A k \in 1..Len(c) : c[k] \in P /\ t[k] = g[c[k]]
    /\ \A k \in 2..Len(c) : c[k - 1] < c[k]

(* They stay in order with one more.                                       *)
LEMMA PicksOn ==
    ASSUME NEW n \in Nat \ {0}, NEW P, NEW g, NEW B, NEW t \in Seq(B), NEW c,
               Picks(t, c, n - 1, P, g)
    PROVE  /\ Picks(t, c, n, P, g)
           /\ n \in P /\ g[n] \in B => Picks(Append(t, g[n]), Append(c, n), n, P, g)
<1>1. /\ c \in Seq(1..n - 1) /\ Len(t) = Len(c)
      /\ \A k \in 1..Len(c) : c[k] \in P /\ t[k] = g[c[k]]
      /\ \A k \in 2..Len(c) : c[k - 1] < c[k]
  BY DEF Picks
<1>2. c \in Seq(1..n)
  BY <1>1, SeqMonotonic, 1..n - 1 \subseteq 1..n
<1>3. Len(c) \in Nat /\ \A k \in 1..Len(c) : c[k] \in 1..n - 1
  BY <1>1, LenProperties, ElementOfSeq
<1>4. Picks(t, c, n, P, g)
  BY <1>1, <1>2 DEF Picks
<1>5. ASSUME n \in P, g[n] \in B PROVE Picks(Append(t, g[n]), Append(c, n), n, P, g)
  <2> DEFINE u == Append(t, g[n])
             d == Append(c, n)
  <2>1. /\ d \in Seq(1..n) /\ Len(d) = Len(c) + 1 /\ d[Len(c) + 1] = n
        /\ \A k \in 1..Len(c) : d[k] = c[k]
    <3>1. n \in 1..n
      OBVIOUS
    <3>2. QED
      BY <1>2, <3>1, AppendProperties
  <2>2. Len(u) = Len(c) + 1 /\ u[Len(c) + 1] = g[n] /\ \A k \in 1..Len(c) : u[k] = t[k]
    BY <1>1, <1>5, AppendProperties
  <2> HIDE DEF u, d
  <2>3. ASSUME NEW k \in 1..Len(d) PROVE d[k] \in P /\ u[k] = g[d[k]]
    <3>1. k \in 1..Len(c) \/ k = Len(c) + 1
      BY <1>3, <2>1
    <3>2. QED
      BY <1>1, <1>5, <2>1, <2>2, <3>1
  <2>4. ASSUME NEW k \in 2..Len(d) PROVE d[k - 1] < d[k]
    <3>1. CASE k \in 2..Len(c)
      <4>1. k - 1 \in 1..Len(c) /\ k \in 1..Len(c)
        BY <1>3, <3>1
      <4>2. QED
        BY <1>1, <2>1, <3>1, <4>1
    <3>2. CASE k = Len(c) + 1
      <4>1. k - 1 = Len(c) /\ Len(c) \in 1..Len(c)
        BY <1>3, <3>2
      <4>2. d[k - 1] = c[Len(c)] /\ c[Len(c)] \in 1..n - 1 /\ d[k] = n
        BY <1>3, <2>1, <3>2, <4>1
      <4>3. QED
        BY <4>2
    <3>3. QED
      BY <1>3, <2>1, <3>1, <3>2
  <2>5. QED
    BY <2>1, <2>2, <2>3, <2>4 DEF Picks, u, d
<1>6. QED
  BY <1>4, <1>5

(* What is taken is what is at the positions, in order.                    *)
LEMMA TakenIs ==
    ASSUME NEW n \in Nat, NEW P, NEW g, NEW B, Covers(g, n, B)
    PROVE  Taken(n, P, g) \in Seq(B) /\ Picks(Taken(n, P, g), Chosen(n, P), n, P, g)
<1> DEFINE same == [i \in Nat |-> i]
           Right(k) == Taken(k, P, g) \in Seq(B)
                   /\ Picks(Taken(k, P, g), Taken(k, P, same), k, P, g)
           Wrong == {k \in 0..n : ~Right(k)}
<1>1. Right(0)
  <2>1. ASSUME NEW h PROVE Taken(0, P, h) = <<>>
    <3>1. [i \in 1..0 |-> IF i \in P THEN <<h[i]>> ELSE <<>>] = <<>>
      OBVIOUS
    <3>2. QED
      BY <3>1, FlattenNone DEF Taken
  <2> HIDE DEF same
  <2>2. <<>> \in Seq(B) /\ Picks(<<>>, <<>>, 0, P, g)
    BY EmptySeq DEF Picks
  <2>3. Taken(0, P, g) = <<>> /\ Taken(0, P, same) = <<>>
    BY <2>1
  <2>4. QED
    BY <2>2, <2>3
<1>2. ASSUME NEW k \in 1..n, Right(k - 1) PROVE Right(k)
  <2>1. k \in Nat \ {0} /\ Covers(g, k, B)
    BY DEF Covers
  <2>2. /\ Taken(k, P, g) \in Seq(B) /\ Taken(k - 1, P, g) \in Seq(B)
        /\ Taken(k, P, g) = IF k \in P THEN Append(Taken(k - 1, P, g), g[k])
               ELSE Taken(k - 1, P, g)
    BY <2>1, TakenGrows
  <2>3. Covers(same, k, Nat) /\ same[k] = k
    BY DEF Covers
  <2> HIDE DEF same
  <2>4. Taken(k, P, same) = IF k \in P THEN Append(Taken(k - 1, P, same), same[k])
            ELSE Taken(k - 1, P, same)
    BY <2>1, <2>3, TakenGrows
  <2>5. Picks(Taken(k - 1, P, g), Taken(k - 1, P, same), k - 1, P, g)
    BY <1>2
  <2> DEFINE t == Taken(k - 1, P, g)
             c == Taken(k - 1, P, same)
  <2>6. /\ Picks(t, c, k, P, g)
        /\ k \in P => Picks(Append(t, g[k]), Append(c, k), k, P, g)
    BY <2>1, <2>2, <2>5, PicksOn
  <2>7. QED
    BY <2>2, <2>3, <2>4, <2>6
<1>3. Wrong = {}
  <2>1. Wrong \in SUBSET (0..n) /\ 0 \notin Wrong
    BY <1>1
  <2>2. \A k \in 1..n : k - 1 \notin Wrong => k \notin Wrong
    <3>1. \A k \in 1..n : k - 1 \in 0..n /\ k \in 0..n
      OBVIOUS
    <3> HIDE DEF Right
    <3>2. QED
      BY <1>2, <3>1
  <2> HIDE DEF Wrong
  <2>3. QED
    BY <2>1, <2>2, NeverWrong
<1>4. Right(n)
  <2>1. n \in 0..n
    OBVIOUS
  <2> HIDE DEF Right
  <2>2. QED
    BY <1>3, <2>1
<1>5. QED
  BY <1>4 DEF Chosen

-----------------------------------------------------------------------------
(* The blocks of a request, each once.                                     *)
Marks == [text : Words, calls : Seq(WireCalls)]
Histories == [role : Strings, text : Words, calls : Seq(WireCalls), answers : Ids,
        results : Seq(Wires)]
MarksIn(m) == IF BlockHashes(m) = <<>> THEN {} ELSE {WireText(m)}
MarksOf(r) == {WireText(m) : m \in {n \in Range(r) : BlockHashes(n) # <<>>}}

(* A message that was sent is one a session may have.                      *)
LEMMA WireIsHistory == Wires \subseteq Histories
<1>1. <<>> \in Seq(Wires)
  BY EmptySeq
<1>2. QED
  BY <1>1 DEF Wires, Histories

(* An element more.                                                        *)
LEMMA RangeAppend ==
    ASSUME NEW B, NEW s \in Seq(B), NEW x \in B
    PROVE  Range(Append(s, x)) = Range(s) \cup {x}
<1> DEFINE t == Append(s, x)
<1>1. /\ t \in Seq(B) /\ Len(s) \in Nat /\ Len(t) = Len(s) + 1 /\ t[Len(s) + 1] = x
      /\ \A i \in 1..Len(s) : t[i] = s[i]
  BY AppendProperties, LenProperties
<1> HIDE DEF t
<1>2. DOMAIN s = 1..Len(s) /\ DOMAIN t = 1..Len(s) + 1
  BY <1>1, LenProperties
<1>3. Range(t) = Range(s) \cup {x}
  BY <1>1, <1>2 DEF Range
<1>4. QED
  BY <1>3 DEF t

(* A message adds its block.                                               *)
LEMMA MarksGrow ==
    ASSUME NEW s \in Seq(Histories), NEW m \in Histories
    PROVE  MarksOf(Append(s, m)) = MarksOf(s) \cup MarksIn(m)
<1>1. Range(Append(s, m)) = Range(s) \cup {m}
  BY RangeAppend
<1>2. QED
  BY <1>1 DEF MarksOf, MarksIn

(* A block is added if it is new.                                          *)
LEMMA AddNewIs ==
    ASSUME NEW ids \in Seq(Marks), NEW m \in Histories
    PROVE  /\ WireText(m) \in Marks
           /\ AddNew(ids, m) = IF BlockHashes(m) = <<>> \/ WireText(m) \in Range(ids)
                  THEN ids
                               ELSE Append(ids, WireText(m))
<1> DEFINE f == [h \in Marks |-> IF h \notin Range(ids) THEN <<h>> ELSE <<>>]
           new == Filter(BlockHashes(m), LAMBDA h : h \notin Range(ids))
           w == WireText(m)
<1>1. w \in Marks
  BY DEF WireText, Marks, Histories
<1>2. f \in Makers(Marks, Marks)
  <2>1. \A h \in Marks : (IF h \notin Range(ids) THEN <<h>> ELSE <<>>) \in Seq(Marks)
    BY EmptySeq, OneOrTwo
  <2>2. QED
    BY <2>1 DEF Makers
<1>3. f[w] = IF w \notin Range(ids) THEN <<w>> ELSE <<>>
  BY <1>1
<1>4. AddNew(ids, m) = ids \o new
  BY DEF AddNew
<1>5. CASE BlockHashes(m) = <<>>
  <2>1. [i \in DOMAIN <<>> |-> IF <<>>[i] \notin Range(ids) THEN <<<<>>[i]>> ELSE <<>>]
            = <<>>
    OBVIOUS
  <2>2. new = <<>>
    BY <1>5, <2>1, FlattenNone DEF Filter
  <2> HIDE DEF new
  <2>3. QED
    BY <1>1, <1>4, <1>5, <2>2, ConcatEmptySeq
<1>6. CASE BlockHashes(m) # <<>>
  <2>1. BlockHashes(m) = <<w>>
    BY <1>6 DEF BlockHashes
  <2>2. [i \in DOMAIN <<w>> |-> IF <<w>>[i] \notin Range(ids) THEN <<<<w>>[i]>> ELSE <<>>]
           = [i \in DOMAIN <<w>> |-> f[<<w>>[i]]]
    BY <1>3
  <2> HIDE DEF f, w
  <2>3. new = Spread(<<w>>, f)
    BY <2>1, <2>2 DEF Filter, Spread
  <2>4. Spread(<<w>>, f) = f[w]
    BY <1>1, <1>2, SpreadOne
  <2> HIDE DEF new
  <2>5. ids \o <<w>> = Append(ids, w) /\ ids \o <<>> = ids
    BY <1>1, AppendIsConcat, ConcatEmptySeq
  <2>6. AddNew(ids, m) = IF w \in Range(ids) THEN ids ELSE Append(ids, w)
    BY <1>3, <1>4, <2>3, <2>4, <2>5
  <2>7. QED
    BY <1>1, <1>6, <2>6 DEF w
<1>7. QED
  BY <1>5, <1>6

(* The blocks stay different, and extend those before.                     *)
LEMMA AddStep ==
    ASSUME NEW ids \in Seq(Marks), NEW m \in Histories
    PROVE  /\ AddNew(ids, m) \in Seq(Marks)
           /\ Range(AddNew(ids, m)) = Range(ids) \cup MarksIn(m)
           /\ IsInjective(ids) => IsInjective(AddNew(ids, m))
           /\ \A base \in Seq(Marks) : IsPrefix(base, ids)
                  => IsPrefix(base, AddNew(ids, m))
<1> DEFINE w == WireText(m)
           new == AddNew(ids, m)
<1>1. w \in Marks /\ new = IF BlockHashes(m) = <<>> \/ w \in Range(ids) THEN ids
          ELSE Append(ids, w)
  BY AddNewIs
<1>2. MarksIn(m) = IF BlockHashes(m) = <<>> THEN {} ELSE {w}
  BY DEF MarksIn
<1> HIDE DEF w, new
<1>3. CASE BlockHashes(m) = <<>> \/ w \in Range(ids)
  BY <1>1, <1>2, <1>3 DEF new
<1>4. CASE ~(BlockHashes(m) = <<>> \/ w \in Range(ids))
  <2>1. new = Append(ids, w) /\ w \notin Range(ids)
    BY <1>1, <1>4
  <2>2. Range(new) = Range(ids) \cup {w}
    BY <1>1, <2>1, RangeAppend
  <2>3. IsInjective(ids) => IsInjective(new)
    <3>1. /\ new \in Seq(Marks) /\ Len(ids) \in Nat /\ Len(new) = Len(ids) + 1
                 /\ new[Len(ids) + 1] = w
          /\ \A i \in 1..Len(ids) : new[i] = ids[i]
      BY <1>1, <2>1, AppendProperties, LenProperties
    <3>2. DOMAIN ids = 1..Len(ids) /\ DOMAIN new = 1..Len(ids) + 1
      BY <3>1, LenProperties
    <3>3. \A i \in 1..Len(ids) : ids[i] # w
      BY <2>1, <3>2 DEF Range
    <3>4. QED
      BY <3>1, <3>2, <3>3 DEF IsInjective
  <2>4. ASSUME NEW base \in Seq(Marks), IsPrefix(base, ids) PROVE IsPrefix(base, new)
    <3>1. new = ids \o <<w>> /\ <<w>> \in Seq(Marks)
      BY <1>1, <2>1, AppendIsConcat, OneOrTwo
    <3>2. QED
      BY <2>4, <3>1, PrefixOf
  <2>5. new \in Seq(Marks)
    BY <1>1, <2>1, AppendProperties
  <2>6. QED
    BY <1>2, <1>4, <2>2, <2>3, <2>4, <2>5 DEF new
<1>5. QED
  BY <1>3, <1>4

-----------------------------------------------------------------------------
Adds(run, base, s) ==
    /\ run[0] = base /\ run[Len(s)] = FoldLeft(AddNew, base, s)
    /\ \A i \in 1..Len(s) : run[i] = AddNew(run[i - 1], s[i])

(* The run behind the blocks of a request.                                 *)
LEMMA AddRun ==
    ASSUME NEW base \in Seq(Marks), NEW s \in Seq(Histories)
    PROVE  Len(s) \in Nat /\ \E run \in [0..Len(s) -> Seq(Marks)] : Adds(run, base, s)
<1> DEFINE n == Len(s)
           step == [p \in (1..n) \X Seq(Marks) |-> AddNew(p[2], s[p[1]])]
           Fold(it) == [S \in SUBSET (1..n) |->
                           IF S = {} THEN base ELSE AddNew(it[S \ {Max(S)}], s[Max(S)])]
<1>1. n \in Nat /\ DOMAIN s = 1..n /\ \A i \in 1..n : s[i] \in Histories
  BY LenProperties, ElementOfSeq
<1> HIDE DEF n
<1>2. base \in Seq(Marks)
  OBVIOUS
<1>3. step \in [(1..n) \X Seq(Marks) -> Seq(Marks)]
  BY <1>1, AddStep
<1>4. ASSUME NEW S \in SUBSET (1..n), S # {} PROVE Max(S) \in S
  <2>1. S \in SUBSET (0..n)
    OBVIOUS
  <2>2. QED
    BY <1>1, <1>4, <2>1, GreatestOf
<1>5. \E it : it = Fold(it)
  <2>1. PICK it \in [SUBSET (1..n) -> Seq(Marks)] : IsFold(it, n, base, step)
    <3> HIDE DEF step
    <3>1. QED
      BY <1>1, <1>2, <1>3, FoldExists
  <2>2. ASSUME NEW S \in SUBSET (1..n)
        PROVE  it[S] = IF S = {} THEN base ELSE AddNew(it[S \ {Max(S)}], s[Max(S)])
    <3>1. CASE S = {}
      BY <2>1, <3>1 DEF IsFold
    <3>2. CASE S # {}
      <4>1. Max(S) \in 1..n /\ S \ {Max(S)} \in SUBSET (1..n)
        BY <1>4, <3>2
      <4>2. it[S \ {Max(S)}] \in Seq(Marks)
        BY <4>1
      <4>3. it[S] = step[<<Max(S), it[S \ {Max(S)}]>>]
        BY <2>1, <3>2 DEF IsFold
      <4>4. QED
        BY <3>2, <4>1, <4>2, <4>3
    <3>3. QED
      BY <3>1, <3>2
  <2>3. it = Fold(it)
    BY <2>2
  <2>4. QED
    BY <2>3
<1> DEFINE it == CHOOSE it : it = Fold(it)
<1>6. it = Fold(it)
  BY <1>5
<1>7. FoldLeft(AddNew, base, s) = it[1..n]
  BY <1>1 DEF FoldLeft, MapThenFoldSet
<1> HIDE DEF it
<1> DEFINE run == [i \in 0..n |-> it[1..i]]
<1>8. it[{}] = base /\ \A i \in 1..n : it[1..i] = AddNew(it[1..i - 1], s[i])
  <2>1. \A S \in SUBSET (1..n) : it[S] = IF S = {} THEN base
            ELSE AddNew(it[S \ {Max(S)}], s[Max(S)])
    BY <1>6
  <2>2. it[{}] = base
    BY <2>1
  <2>3. ASSUME NEW i \in 1..n PROVE it[1..i] = AddNew(it[1..i - 1], s[i])
    <3>1. 1..i \in SUBSET (1..n) /\ 1..i # {} /\ Max(1..i) = i /\ (1..i) \ {i} = 1..i - 1
      BY <1>1, FoldIsRun
    <3>2. QED
      BY <2>1, <3>1
  <2>4. QED
    BY <2>2, <2>3
<1>9. run[0] = base /\ run[n] = FoldLeft(AddNew, base, s)
          /\ \A i \in 1..n : run[i] = AddNew(run[i - 1], s[i])
  <2>1. 1..0 = {} /\ 0 \in 0..n /\ n \in 0..n /\ \A i \in 1..n : i \in 0..n
            /\ i - 1 \in 0..n
    BY <1>1
  <2>2. QED
    BY <1>7, <1>8, <2>1
<1>10. \A i \in 0..n : run[i] \in Seq(Marks)
  <2>1. ASSUME NEW i \in 1..n, run[i - 1] \in Seq(Marks) PROVE run[i] \in Seq(Marks)
    <3>1. s[i] \in Histories /\ run[i] = AddNew(run[i - 1], s[i])
      BY <1>1, <1>9
    <3>2. QED
      BY <2>1, <3>1, AddStep
  <2>2. run[0] \in Seq(Marks)
    BY <1>2, <1>9
  <2> HIDE DEF run
  <2>3. QED
    BY <1>1, <2>1, <2>2, RunWithin
<1>11. run \in [0..n -> Seq(Marks)]
  BY <1>10
<1>12. Adds(run, base, s)
  BY <1>9 DEF Adds, n
<1>13. QED
  BY <1>1, <1>11, <1>12 DEF n

-----------------------------------------------------------------------------
(* On the way, the blocks are those of the messages so far.                *)
LEMMA AddsKeep ==
    ASSUME NEW base \in Seq(Marks), NEW r \in Seq(Histories),
           NEW run \in [0..Len(r) -> Seq(Marks)], Adds(run, base, r)
    PROVE  \A i \in 0..Len(r) :
               /\ Range(run[i]) = Range(base) \cup MarksOf(SubSeq(r, 1, i))
                                /\ IsInjective(base) => IsInjective(run[i])
<1> DEFINE n == Len(r)
           Right(i) == /\ Range(run[i]) = Range(base) \cup MarksOf(SubSeq(r, 1, i))
                       /\ IsInjective(base) => IsInjective(run[i])
           Wrong == {i \in 0..n : ~Right(i)}
<1>1. n \in Nat /\ SubSeq(r, 1, 0) = <<>> /\ run[0] = base
  BY LenProperties, SubSeqEmpty DEF Adds
<1>2. Right(0)
  <2>1. MarksOf(<<>>) = {}
    BY DEF MarksOf, Range
  <2>2. QED
    BY <1>1, <2>1
<1>3. ASSUME NEW i \in 1..n, Right(i - 1) PROVE Right(i)
  <2>1. i - 1 \in 0..n /\ i \in 1..Len(r)
    BY <1>1
  <2>2. /\ SubSeq(r, 1, i - 1) \in Seq(Histories) /\ r[i] \in Histories
        /\ SubSeq(r, 1, i) = Append(SubSeq(r, 1, i - 1), r[i])
    BY <2>1, UptoLast
  <2>3. run[i] = AddNew(run[i - 1], r[i]) /\ run[i - 1] \in Seq(Marks)
    BY <2>1 DEF Adds
  <2>4. MarksOf(SubSeq(r, 1, i)) = MarksOf(SubSeq(r, 1, i - 1)) \cup MarksIn(r[i])
    BY <2>2, MarksGrow
  <2>5. /\ Range(run[i]) = Range(run[i - 1]) \cup MarksIn(r[i])
        /\ IsInjective(run[i - 1]) => IsInjective(run[i])
    BY <2>2, <2>3, AddStep
  <2>6. QED
    BY <1>3, <2>4, <2>5
<1>4. Wrong \in SUBSET (0..n) /\ 0 \notin Wrong
  BY <1>2
<1>5. \A i \in 1..n : i - 1 \notin Wrong => i \notin Wrong
  <2>1. \A i \in 1..n : i - 1 \in 0..n /\ i \in 0..n
    BY <1>1
  <2> HIDE DEF Right
  <2>2. QED
    BY <1>3, <2>1
<1>6. Wrong = {}
  <2> HIDE DEF Wrong
  <2>1. QED
    BY <1>1, <1>4, <1>5, NeverWrong
<1>7. ASSUME NEW i \in 0..n PROVE Right(i)
  <2> HIDE DEF Right
  <2>1. QED
    BY <1>6
<1>8. QED
  BY <1>7

(* They only grow.                                                         *)
LEMMA AddsGrow ==
    ASSUME NEW base \in Seq(Marks), NEW r \in Seq(Histories),
           NEW run \in [0..Len(r) -> Seq(Marks)], Adds(run, base, r), NEW i \in 0..Len(r)
    PROVE  IsPrefix(run[i], run[Len(r)])
<1> DEFINE n == Len(r)
           Wrong == {j \in 0..n : i <= j /\ ~IsPrefix(run[i], run[j])}
<1>1. n \in Nat /\ run[i] \in Seq(Marks)
  BY LenProperties
<1>2. IsPrefix(run[i], run[i])
  BY <1>1, EmptySeq, PrefixOf
<1>3. Wrong \in SUBSET (0..n) /\ 0 \notin Wrong
  <2>1. i <= 0 => i = 0
    OBVIOUS
  <2>2. QED
    BY <1>2, <2>1
<1>4. ASSUME NEW j \in 1..n, j - 1 \notin Wrong PROVE j \notin Wrong
  <2>1. j - 1 \in 0..n /\ j \in 1..Len(r)
    BY <1>1
  <2>2. run[j] = AddNew(run[j - 1], r[j]) /\ run[j - 1] \in Seq(Marks)
            /\ r[j] \in Histories
    BY <2>1, ElementOfSeq DEF Adds
  <2>3. CASE i <= j - 1
    <3>1. IsPrefix(run[i], run[j - 1])
      BY <1>4, <2>1, <2>3
    <3>2. IsPrefix(run[i], run[j])
      BY <1>1, <2>2, <3>1, AddStep
    <3>3. QED
      BY <3>2
  <2>4. CASE ~(i <= j - 1)
    <3>1. i <= j => i = j
      BY <2>4
    <3>2. QED
      BY <1>2, <3>1
  <2>5. QED
    BY <2>3, <2>4
<1>5. Wrong = {}
  <2> HIDE DEF Wrong
  <2>1. QED
    BY <1>1, <1>3, <1>4, NeverWrong
<1>6. n \in 0..n /\ i <= n
  BY <1>1
<1>7. QED
  BY <1>5, <1>6

(* The blocks of a request are those of its messages, each once.           *)
LEMMA HashesAre ==
    ASSUME NEW base \in Seq(Marks), NEW r \in Seq(Histories)
    PROVE  /\ FoldLeft(AddNew, base, r) \in Seq(Marks)
           /\ Range(FoldLeft(AddNew, base, r)) = Range(base) \cup MarksOf(r)
           /\ IsInjective(base) => IsInjective(FoldLeft(AddNew, base, r))
           /\ IsPrefix(base, FoldLeft(AddNew, base, r))
<1> DEFINE n == Len(r)
<1>1. n \in Nat /\ \E run \in [0..n -> Seq(Marks)] : Adds(run, base, r)
  BY AddRun
<1>2. PICK run \in [0..n -> Seq(Marks)] : Adds(run, base, r)
  BY <1>1
<1>3. run[0] = base /\ run[n] = FoldLeft(AddNew, base, r) /\ 0 \in 0..n /\ n \in 0..n
          /\ SubSeq(r, 1, n) = r
  BY <1>1, <1>2, SubSeqFull DEF Adds
<1>4. /\ Range(run[n]) = Range(base) \cup MarksOf(SubSeq(r, 1, n))
      /\ IsInjective(base) => IsInjective(run[n])
  BY <1>2, <1>3, AddsKeep
<1>5. IsPrefix(run[0], run[n])
  BY <1>2, <1>3, AddsGrow
<1>6. run[n] \in Seq(Marks)
  BY <1>2, <1>3
<1>7. QED
  BY <1>3, <1>4, <1>5, <1>6

(* A prefix has the first elements.                                        *)
LEMMA PrefixElements ==
    ASSUME NEW B, NEW s \in Seq(B), NEW t \in Seq(B)
    PROVE  IsPrefix(s, t) <=> Len(s) <= Len(t) /\ \A i \in 1..Len(s) : s[i] = t[i]
<1>1. Len(s) \in Nat /\ Len(t) \in Nat /\ SubSeq(s, 1, Len(s)) = s
  BY LenProperties, SubSeqFull
<1>2. CASE Len(s) <= Len(t)
  <2> DEFINE u == SubSeq(t, 1, Len(s))
  <2>1. \A i \in 1..Len(s) : t[i] \in B
    BY <1>1, <1>2, ElementOfSeq
  <2>2. u \in Seq(B) /\ Len(u) = Len(s) /\ \A i \in 1..Len(s) : u[i] = t[i]
    BY <1>1, <2>1, SubSeqProperties
  <2> HIDE DEF u
  <2>3. s = u <=> \A i \in 1..Len(s) : s[i] = t[i]
    BY <2>2, SeqEqual
  <2>4. QED
    BY <1>1, <1>2, <2>3 DEF IsPrefix, u
<1>3. CASE ~(Len(s) <= Len(t))
  BY <1>3 DEF IsPrefix
<1>4. QED
  BY <1>2, <1>3

(* A longer request has the blocks of a shorter one first.                 *)
LEMMA HashesGrow ==
    ASSUME NEW r \in Seq(Histories), NEW s \in Seq(Histories), IsPrefix(r, s)
    PROVE  IsPrefix(FoldLeft(AddNew, <<>>, r), FoldLeft(AddNew, <<>>, s))
<1> DEFINE n == Len(r)
<1>1. <<>> \in Seq(Marks) /\ n \in Nat /\ n <= Len(s) /\ \A i \in 1..n : r[i] = s[i]
  BY EmptySeq, LenProperties, PrefixElements
<1>2. /\ \E f \in [0..n -> Seq(Marks)] : Adds(f, <<>>, r)
      /\ \E g \in [0..Len(s) -> Seq(Marks)] : Adds(g, <<>>, s)
  BY <1>1, AddRun
<1>3. PICK f \in [0..n -> Seq(Marks)] : Adds(f, <<>>, r)
  BY <1>2
<1>4. PICK g \in [0..Len(s) -> Seq(Marks)] : Adds(g, <<>>, s)
  BY <1>2
<1>5. f[n] = g[n]
  <2>1. f[0] = g[0]
    BY <1>3, <1>4 DEF Adds
  <2>2. ASSUME NEW i \in 1..n, f[i - 1] = g[i - 1] PROVE f[i] = g[i]
    <3>1. f[i] = AddNew(f[i - 1], r[i])
      BY <1>3 DEF Adds
    <3>2. i \in 1..Len(s)
      BY <1>1, LenProperties
    <3>3. g[i] = AddNew(g[i - 1], s[i])
      BY <1>4, <3>2 DEF Adds
    <3>4. QED
      BY <1>1, <2>2, <3>1, <3>3
  <2>3. QED
    BY <1>1, <2>1, <2>2, SameRun
<1>6. f[n] = FoldLeft(AddNew, <<>>, r) /\ g[Len(s)] = FoldLeft(AddNew, <<>>, s)
  BY <1>3, <1>4 DEF Adds
<1>7. n \in 0..Len(s)
  BY <1>1, LenProperties
<1>8. IsPrefix(g[n], g[Len(s)])
  BY <1>1, <1>4, <1>7, AddsGrow
<1>9. QED
  BY <1>5, <1>6, <1>8

-----------------------------------------------------------------------------
(* The lines of a trace of growing requests.                               *)
LineSet == [hash_ids : Seq(Marks), messages : Seq(Histories)]
Growing(rs) == \A k \in 2..Len(rs) : IsPrefix(rs[k - 1], rs[k])
Carries(lines, rs) ==
    /\ lines \in Seq(LineSet) /\ Len(lines) = Len(rs)
    /\ \A k \in 1..Len(rs) : lines[k].messages = rs[k] /\ Hashed(lines[k])
    /\ \A k \in 2..Len(rs) : IsPrefix(lines[k - 1].hash_ids, lines[k].hash_ids)

(* The lines of growing requests.                                          *)
LEMMA LinesCarry ==
    ASSUME NEW rs \in Seq(Seq(Histories)), Growing(rs)
    PROVE  Carries(Lines(rs), rs)
<1> DEFINE n == Len(rs)
           lines == Lines(rs)
           ids(k) == FoldLeft(AddNew, <<>>, rs[k])
<1>1. n \in Nat /\ DOMAIN rs = 1..n /\ \A k \in 1..n : rs[k] \in Seq(Histories)
  BY LenProperties, ElementOfSeq
<1>2. /\ lines = [k \in 1..n |-> lines[k]]
      /\ \A k \in 1..n : lines[k] = [hash_ids |-> ids(k), messages |-> rs[k]]
  BY <1>1 DEF Lines, Line
<1>3. ASSUME NEW k \in 1..n
      PROVE  ids(k) \in Seq(Marks) /\ Range(ids(k)) = MarksOf(rs[k])
                 /\ IsInjective(ids(k))
  <2>1. <<>> \in Seq(Marks) /\ Range(<<>>) = {} /\ IsInjective(<<>>)
    BY EmptySeq DEF Range, IsInjective
  <2>2. /\ FoldLeft(AddNew, <<>>, rs[k]) \in Seq(Marks)
        /\ Range(FoldLeft(AddNew, <<>>, rs[k])) = Range(<<>>) \cup MarksOf(rs[k])
        /\ IsInjective(<<>>) => IsInjective(FoldLeft(AddNew, <<>>, rs[k]))
    BY <1>1, <2>1, HashesAre
  <2>3. QED
    BY <2>1, <2>2
<1> HIDE DEF lines
<1>4. lines \in Seq(LineSet) /\ Len(lines) = n
  <2> HIDE DEF ids
  <2>1. \A k \in 1..n : lines[k] \in LineSet
    BY <1>1, <1>2, <1>3 DEF LineSet
  <2> HIDE DEF n
  <2>2. QED
    BY <1>1, <1>2, <2>1, IsSequence
<1>5. ASSUME NEW k \in 1..n PROVE lines[k].messages = rs[k] /\ Hashed(lines[k])
  <2> HIDE DEF ids
  <2>1. lines[k].messages = rs[k] /\ lines[k].hash_ids = ids(k)
    BY <1>2
  <2>2. QED
    BY <1>3, <2>1 DEF Hashed, MarksOf
<1>6. ASSUME NEW k \in 2..n PROVE IsPrefix(lines[k - 1].hash_ids, lines[k].hash_ids)
  <2>1. k - 1 \in 1..n /\ k \in 1..n
    BY <1>1
  <2>2. IsPrefix(rs[k - 1], rs[k])
    BY DEF Growing
  <2>3. IsPrefix(ids(k - 1), ids(k))
    BY <1>1, <2>1, <2>2, HashesGrow
  <2>4. lines[k - 1].hash_ids = ids(k - 1) /\ lines[k].hash_ids = ids(k)
    BY <1>2, <2>1
  <2>5. QED
    BY <2>3, <2>4
<1>7. QED
  BY <1>4, <1>5, <1>6 DEF Carries, lines

(* A longer request has all blocks of a shorter one.                       *)
LEMMA MarksWithin ==
    ASSUME NEW r \in Seq(Histories), NEW s \in Seq(Histories), IsPrefix(r, s)
    PROVE  MarksOf(r) \subseteq MarksOf(s)
<1>1. DOMAIN r = 1..Len(r) /\ DOMAIN s = 1..Len(s) /\ Len(r) \in Nat /\ Len(s) \in Nat
  BY LenProperties
<1>2. Len(r) <= Len(s) /\ \A i \in 1..Len(r) : r[i] = s[i]
  BY PrefixElements
<1>3. Range(r) \subseteq Range(s)
  BY <1>1, <1>2 DEF Range
<1>4. QED
  BY <1>3 DEF MarksOf

Carried(lines) == IF lines = <<>> THEN <<>> ELSE Last(lines).hash_ids

(* A line more is a line.                                                  *)
LEMMA ExtendType ==
    ASSUME NEW lines \in Seq(LineSet), NEW r \in Seq(Histories)
    PROVE  LET ids == FoldLeft(AddNew, Carried(lines), r)
           IN  /\ Carried(lines) \in Seq(Marks) /\ ids \in Seq(Marks)
               /\ Extended(lines, r) = Append(lines, Line(ids, r))
                      /\ Line(ids, r) \in LineSet
               /\ Extended(lines, r) \in Seq(LineSet)
<1> DEFINE ids == FoldLeft(AddNew, Carried(lines), r)
<1>1. Carried(lines) \in Seq(Marks)
  <2>1. lines # <<>> => Last(lines) \in LineSet
    BY OtherLast
  <2>2. QED
    BY <2>1, EmptySeq DEF Carried, LineSet
<1>2. ids \in Seq(Marks)
  BY <1>1, HashesAre
<1>3. Extended(lines, r) = Append(lines, Line(ids, r))
  BY DEF Extended, Carried
<1> HIDE DEF ids
<1>4. Line(ids, r) \in LineSet
  BY <1>2 DEF Line, LineSet
<1>5. Extended(lines, r) \in Seq(LineSet)
  BY <1>3, <1>4, AppendProperties
<1>6. QED
  BY <1>1, <1>2, <1>3, <1>4, <1>5 DEF ids

(* It carries the blocks of the one before.                                *)
LEMMA ExtendStep ==
    ASSUME NEW lines, NEW rs \in Seq(Seq(Histories)), Carries(lines, rs),
               NEW r \in Seq(Histories),
           rs # <<>> => IsPrefix(Last(rs), r)
    PROVE  Carries(Extended(lines, r), Append(rs, r))
<1> DEFINE n == Len(rs)
           ids == FoldLeft(AddNew, Carried(lines), r)
           new == Append(lines, Line(ids, r))
           more == Append(rs, r)
<1>1. /\ lines \in Seq(LineSet) /\ Len(lines) = n /\ n \in Nat
      /\ \A k \in 1..n : lines[k].messages = rs[k] /\ Hashed(lines[k])
      /\ \A k \in 2..n : IsPrefix(lines[k - 1].hash_ids, lines[k].hash_ids)
  BY LenProperties DEF Carries
<1>2. /\ Carried(lines) \in Seq(Marks) /\ ids \in Seq(Marks) /\ Extended(lines, r) = new
      /\ Line(ids, r) \in LineSet /\ new \in Seq(LineSet)
  BY <1>1, ExtendType
<1>3. Range(Carried(lines)) \subseteq MarksOf(r) /\ IsInjective(Carried(lines))
  <2>1. CASE n = 0
    <3>1. lines = <<>>
      BY <1>1, <2>1, EmptySeq
    <3>2. QED
      BY <3>1 DEF Carried, Range, IsInjective
  <2>2. CASE n # 0
    <3>1. lines # <<>> /\ rs # <<>> /\ n \in 1..n
      BY <1>1, <2>2, EmptySeq
    <3>2. Carried(lines) = lines[n].hash_ids /\ Last(rs) = rs[n]
      BY <1>1, <3>1 DEF Carried, Last
    <3>3. Hashed(lines[n]) /\ lines[n].messages = rs[n]
      BY <1>1, <3>1
    <3>4. Range(lines[n].hash_ids) = MarksOf(rs[n]) /\ IsInjective(lines[n].hash_ids)
      BY <3>3 DEF Hashed, MarksOf
    <3>5. rs[n] \in Seq(Histories) /\ IsPrefix(rs[n], r)
      BY <3>1, <3>2, ElementOfSeq
    <3>6. QED
      BY <3>2, <3>4, <3>5, MarksWithin
  <2>3. QED
    BY <2>1, <2>2
<1>4. /\ Range(ids) = Range(Carried(lines)) \cup MarksOf(r)
      /\ IsInjective(Carried(lines)) => IsInjective(ids)
      /\ IsPrefix(Carried(lines), ids)
  BY <1>2, HashesAre
<1>5. Hashed(Line(ids, r))
  <2>1. Range(ids) = MarksOf(r) /\ IsInjective(ids)
    BY <1>3, <1>4
  <2> HIDE DEF ids
  <2>2. QED
    BY <2>1 DEF Hashed, MarksOf, Line
<1>6. Line(ids, r).messages = r /\ Line(ids, r).hash_ids = ids
  BY DEF Line
<1> DEFINE line == Line(ids, r)
<1>7. /\ Len(new) = n + 1 /\ new[n + 1] = line /\ \A k \in 1..n : new[k] = lines[k]
      /\ Len(more) = n + 1 /\ more[n + 1] = r /\ \A k \in 1..n : more[k] = rs[k]
  BY <1>1, <1>2, AppendProperties
<1> HIDE DEF new, more, line, ids
<1>8. ASSUME NEW k \in 1..n + 1 PROVE new[k].messages = more[k] /\ Hashed(new[k])
  <2>1. k \in 1..n \/ k = n + 1
    BY <1>1
  <2>2. QED
    BY <1>1, <1>5, <1>6, <1>7, <2>1 DEF line
<1>9. ASSUME NEW k \in 2..n + 1 PROVE IsPrefix(new[k - 1].hash_ids, new[k].hash_ids)
  <2>1. CASE k \in 2..n
    <3>1. k - 1 \in 1..n /\ k \in 1..n
      BY <1>1, <2>1
    <3>2. QED
      BY <1>1, <1>7, <2>1, <3>1
  <2>2. CASE k = n + 1
    <3>1. k - 1 = n /\ n \in 1..n /\ lines # <<>>
      BY <1>1, <2>2, EmptySeq
    <3>2. Carried(lines) = lines[n].hash_ids
      BY <1>1, <3>1 DEF Carried, Last
    <3>3. QED
      BY <1>4, <1>6, <1>7, <2>2, <3>1, <3>2 DEF line
  <2>3. QED
    BY <1>1, <2>1, <2>2
<1>10. Carries(new, more)
  BY <1>2, <1>7, <1>8, <1>9 DEF Carries
<1>11. QED
  BY <1>2, <1>10 DEF more

-----------------------------------------------------------------------------
Extends(run, s) ==
    /\ run[0] = <<>> /\ run[Len(s)] = FoldLeft(Extended, <<>>, s)
    /\ \A i \in 1..Len(s) : run[i] = Extended(run[i - 1], s[i])

(* The run behind the lines of a session.                                  *)
LEMMA ExtendRun ==
    ASSUME NEW s \in Seq(Seq(Histories))
    PROVE  Len(s) \in Nat /\ \E run \in [0..Len(s) -> Seq(LineSet)] : Extends(run, s)
<1> DEFINE n == Len(s)
           step == [p \in (1..n) \X Seq(LineSet) |-> Extended(p[2], s[p[1]])]
           Fold(it) == [S \in SUBSET (1..n) |->
                           IF S = {} THEN <<>> ELSE Extended(it[S \ {Max(S)}], s[Max(S)])]
<1>1. n \in Nat /\ DOMAIN s = 1..n /\ \A i \in 1..n : s[i] \in Seq(Histories)
  BY LenProperties, ElementOfSeq
<1> HIDE DEF n
<1>2. <<>> \in Seq(LineSet)
  BY EmptySeq
<1>3. step \in [(1..n) \X Seq(LineSet) -> Seq(LineSet)]
  BY <1>1, ExtendType
<1>4. ASSUME NEW S \in SUBSET (1..n), S # {} PROVE Max(S) \in S
  <2>1. S \in SUBSET (0..n)
    OBVIOUS
  <2>2. QED
    BY <1>1, <1>4, <2>1, GreatestOf
<1>5. \E it : it = Fold(it)
  <2>1. PICK it \in [SUBSET (1..n) -> Seq(LineSet)] : IsFold(it, n, <<>>, step)
    <3> HIDE DEF step
    <3>1. QED
      BY <1>1, <1>2, <1>3, FoldExists
  <2>2. ASSUME NEW S \in SUBSET (1..n)
        PROVE  it[S] = IF S = {} THEN <<>> ELSE Extended(it[S \ {Max(S)}], s[Max(S)])
    <3>1. CASE S = {}
      BY <2>1, <3>1 DEF IsFold
    <3>2. CASE S # {}
      <4>1. Max(S) \in 1..n /\ S \ {Max(S)} \in SUBSET (1..n)
        BY <1>4, <3>2
      <4>2. it[S \ {Max(S)}] \in Seq(LineSet)
        BY <4>1
      <4>3. it[S] = step[<<Max(S), it[S \ {Max(S)}]>>]
        BY <2>1, <3>2 DEF IsFold
      <4>4. QED
        BY <3>2, <4>1, <4>2, <4>3
    <3>3. QED
      BY <3>1, <3>2
  <2>3. it = Fold(it)
    BY <2>2
  <2>4. QED
    BY <2>3
<1> DEFINE it == CHOOSE it : it = Fold(it)
<1>6. it = Fold(it)
  BY <1>5
<1>7. FoldLeft(Extended, <<>>, s) = it[1..n]
  BY <1>1 DEF FoldLeft, MapThenFoldSet
<1> HIDE DEF it
<1> DEFINE run == [i \in 0..n |-> it[1..i]]
<1>8. it[{}] = <<>> /\ \A i \in 1..n : it[1..i] = Extended(it[1..i - 1], s[i])
  <2>1. \A S \in SUBSET (1..n) : it[S] = IF S = {} THEN <<>>
            ELSE Extended(it[S \ {Max(S)}], s[Max(S)])
    BY <1>6
  <2>2. it[{}] = <<>>
    BY <2>1
  <2>3. ASSUME NEW i \in 1..n PROVE it[1..i] = Extended(it[1..i - 1], s[i])
    <3>1. 1..i \in SUBSET (1..n) /\ 1..i # {} /\ Max(1..i) = i /\ (1..i) \ {i} = 1..i - 1
      BY <1>1, FoldIsRun
    <3>2. QED
      BY <2>1, <3>1
  <2>4. QED
    BY <2>2, <2>3
<1>9. run[0] = <<>> /\ run[n] = FoldLeft(Extended, <<>>, s)
          /\ \A i \in 1..n : run[i] = Extended(run[i - 1], s[i])
  <2>1. 1..0 = {} /\ 0 \in 0..n /\ n \in 0..n /\ \A i \in 1..n : i \in 0..n
            /\ i - 1 \in 0..n
    BY <1>1
  <2>2. QED
    BY <1>7, <1>8, <2>1
<1>10. \A i \in 0..n : run[i] \in Seq(LineSet)
  <2>1. \A i \in 1..n : run[i - 1] \in Seq(LineSet) => run[i] \in Seq(LineSet)
    BY <1>1, <1>9, ExtendType
  <2>2. run[0] \in Seq(LineSet)
    BY <1>2, <1>9
  <2> HIDE DEF run
  <2>3. QED
    BY <1>1, <2>1, <2>2, RunWithin
<1>11. run \in [0..n -> Seq(LineSet)]
  BY <1>10
<1>12. Extends(run, s)
  BY <1>9 DEF Extends, n
<1>13. QED
  BY <1>1, <1>11, <1>12 DEF n

(* The lines of a session, with blocks carried along.                      *)
LEMMA CumulativeCarry ==
    ASSUME NEW rs \in Seq(Seq(Histories)), Growing(rs)
    PROVE  Carries(CumulativeLines(rs), rs)
<1> DEFINE n == Len(rs)
<1>1. n \in Nat /\ \E run \in [0..n -> Seq(LineSet)] : Extends(run, rs)
  BY ExtendRun
<1>2. PICK run \in [0..n -> Seq(LineSet)] : Extends(run, rs)
  BY <1>1
<1> DEFINE Right(i) == Carries(run[i], SubSeq(rs, 1, i))
           Wrong == {i \in 0..n : ~Right(i)}
<1>3. SubSeq(rs, 1, 0) = <<>> /\ SubSeq(rs, 1, n) = rs
  BY SubSeqEmpty, SubSeqFull
<1>4. Right(0)
  BY <1>2, <1>3, EmptySeq DEF Extends, Carries
<1>5. ASSUME NEW i \in 1..n, Right(i - 1) PROVE Right(i)
  <2> DEFINE s == SubSeq(rs, 1, i - 1)
  <2>1. i - 1 \in 0..n /\ i \in 1..Len(rs)
    BY <1>1
  <2>2. s \in Seq(Seq(Histories)) /\ rs[i] \in Seq(Histories)
            /\ SubSeq(rs, 1, i) = Append(s, rs[i])
    BY <2>1, UptoLast
  <2>3. run[i] = Extended(run[i - 1], rs[i])
    BY <1>2, <2>1 DEF Extends
  <2>4. s # <<>> => IsPrefix(Last(s), rs[i])
    <3>1. \A j \in 1..i - 1 : rs[j] \in Seq(Histories)
      BY <1>1, ElementOfSeq
    <3>2. Len(s) = i - 1 /\ \A j \in 1..i - 1 : s[j] = rs[j]
      <4>1. 1 \in Int /\ i - 1 \in Int
        BY <1>1
      <4>2. /\ Len(SubSeq(rs, 1, i - 1)) = IF 1 <= i - 1 THEN i - 1 - 1 + 1 ELSE 0
            /\ \A j \in 1..i - 1 - 1 + 1 : SubSeq(rs, 1, i - 1)[j] = rs[1 + j - 1]
        BY <3>1, <4>1, SubSeqProperties
      <4>3. QED
        BY <4>2
    <3>3. s # <<>> => Len(s) # 0
      BY <2>2, EmptySeq
    <3> HIDE DEF s
    <3>4. s # <<>> => i \in 2..n /\ Last(s) = rs[i - 1]
      BY <1>1, <3>2, <3>3 DEF Last
    <3>5. QED
      BY <3>4 DEF Growing
  <2>5. Carries(run[i - 1], s)
    BY <1>5
  <2> HIDE DEF s
  <2>6. Carries(Extended(run[i - 1], rs[i]), Append(s, rs[i]))
    BY <2>2, <2>4, <2>5, ExtendStep
  <2>7. QED
    BY <2>2, <2>3, <2>6
<1>6. Wrong \in SUBSET (0..n) /\ 0 \notin Wrong
  BY <1>4
<1>7. \A i \in 1..n : i - 1 \notin Wrong => i \notin Wrong
  <2>1. \A i \in 1..n : i - 1 \in 0..n /\ i \in 0..n
    BY <1>1
  <2> HIDE DEF Right
  <2>2. QED
    BY <1>5, <2>1
<1>8. Wrong = {}
  <2> HIDE DEF Wrong
  <2>1. QED
    BY <1>1, <1>6, <1>7, NeverWrong
<1>9. Right(n)
  <2>1. n \in 0..n
    BY <1>1
  <2> HIDE DEF Right
  <2>2. QED
    BY <1>8, <2>1
<1>10. run[n] = CumulativeLines(rs)
  BY <1>2 DEF Extends, CumulativeLines
<1>11. QED
  BY <1>3, <1>9, <1>10

-----------------------------------------------------------------------------
(* Growing requests, and the last of them.                                 *)
LEMMA PicksGrow ==
    ASSUME NEW n \in Nat, NEW t, NEW c, NEW P, NEW g, Picks(t, c, n, P, g),
           \A i \in 1..n : \A j \in 1..n : i < j => IsPrefix(g[i], g[j])
    PROVE  Growing(t)
<1>1. /\ c \in Seq(1..n) /\ Len(t) = Len(c) /\ \A k \in 1..Len(c) : t[k] = g[c[k]]
      /\ \A k \in 2..Len(c) : c[k - 1] < c[k]
  BY DEF Picks
<1>2. Len(c) \in Nat /\ \A k \in 1..Len(c) : c[k] \in 1..n
  BY <1>1, LenProperties, ElementOfSeq
<1>3. ASSUME NEW k \in 2..Len(t) PROVE IsPrefix(t[k - 1], t[k])
  <2>1. k - 1 \in 1..Len(c) /\ k \in 1..Len(c) /\ c[k - 1] < c[k]
    BY <1>1, <1>2
  <2>2. c[k - 1] \in 1..n /\ c[k] \in 1..n /\ t[k - 1] = g[c[k - 1]] /\ t[k] = g[c[k]]
    BY <1>1, <1>2, <2>1
  <2>3. QED
    BY <2>1, <2>2
<1>4. QED
  BY <1>3 DEF Growing

(* The beginnings of a sequence.                                           *)
LEMMA PrefixesOf ==
    ASSUME NEW B, NEW h \in Seq(B), NEW i \in 0..Len(h), NEW j \in i..Len(h)
    PROVE  /\ SubSeq(h, 1, i) \in Seq(B) /\ SubSeq(h, 1, j) \in Seq(B)
                  /\ Len(SubSeq(h, 1, i)) = i
           /\ IsPrefix(SubSeq(h, 1, i), SubSeq(h, 1, j))
           /\ SubSeq(h, i + 1, j) \in Seq(B)
           /\ SubSeq(h, 1, j) = SubSeq(h, 1, i) \o SubSeq(h, i + 1, j)
           /\ \A k \in 1..i : SubSeq(h, 1, i)[k] = h[k]
<1>1. Len(h) \in Nat /\ i \in Int /\ j \in Int /\ 1 \in Int /\ i + 1 \in Int
          /\ \A k \in 1..Len(h) : h[k] \in B
  BY LenProperties, ElementOfSeq
<1>2. /\ SubSeq(h, 1, i) \in Seq(B) /\ Len(SubSeq(h, 1, i)) = i
             /\ SubSeq(h, 1, j) \in Seq(B)
      /\ SubSeq(h, i + 1, j) \in Seq(B) /\ \A k \in 1..i : SubSeq(h, 1, i)[k] = h[k]
  <2>1. (\A k \in 1..i : h[k] \in B) /\ (\A k \in 1..j : h[k] \in B)
            /\ (\A k \in i + 1..j : h[k] \in B)
    BY <1>1
  <2>2. /\ SubSeq(h, 1, i) \in Seq(B) /\ SubSeq(h, 1, j) \in Seq(B)
               /\ SubSeq(h, i + 1, j) \in Seq(B)
        /\ Len(SubSeq(h, 1, i)) = IF 1 <= i THEN i - 1 + 1 ELSE 0
        /\ \A k \in 1..i - 1 + 1 : SubSeq(h, 1, i)[k] = h[1 + k - 1]
    BY <1>1, <2>1, SubSeqProperties
  <2>3. QED
    BY <1>1, <2>2
<1>3. SubSeq(h, 1, i) \o SubSeq(h, i + 1, j) = SubSeq(h, 1, j)
  <2>1. 1 \in 1..Len(h) + 1 /\ i \in 1 - 1..Len(h) /\ j \in i..Len(h)
    BY <1>1
  <2>2. QED
    BY <2>1, ConcatAdjacentSubSeq
<1> DEFINE a == SubSeq(h, 1, i)
           b == SubSeq(h, i + 1, j)
<1>4. a \in Seq(B) /\ b \in Seq(B) /\ a \o b = SubSeq(h, 1, j)
  BY <1>2, <1>3
<1> HIDE DEF a, b
<1>5. IsPrefix(a, a \o b)
  BY <1>4, PrefixOf
<1>6. QED
  BY <1>2, <1>3, <1>4, <1>5 DEF a

(* The requests of a Claude session and of ShareGPT messages.              *)
LEMMA PrefixesTaken ==
    ASSUME NEW B, NEW h \in Seq(B), NEW n \in 0..Len(h), NEW P
    PROVE  LET g == [i \in 1..n |-> SubSeq(h, 1, i)]
           IN  /\ Taken(n, P, g) \in Seq(Seq(B)) /\ Growing(Taken(n, P, g))
               /\ Picks(Taken(n, P, g), Chosen(n, P), n, P, g)
<1> DEFINE g == [i \in 1..n |-> SubSeq(h, 1, i)]
<1>1. n \in Nat /\ Len(h) \in Nat
  BY LenProperties
<1>2. \A i \in 1..n : g[i] = SubSeq(h, 1, i)
  OBVIOUS
<1> HIDE DEF g
<1>3. ASSUME NEW i \in 1..n, NEW j \in 1..n, i < j PROVE IsPrefix(g[i], g[j])
  <2>1. i \in 0..Len(h) /\ j \in i..Len(h)
    BY <1>1, <1>3
  <2>2. QED
    BY <1>2, <2>1, PrefixesOf
<1>4. Covers(g, n, Seq(B))
  <2>1. ASSUME NEW i \in 1..n PROVE g[i] \in Seq(B)
    <3>1. i \in 0..Len(h) /\ i \in i..Len(h)
      BY <1>1
    <3>2. QED
      BY <1>2, <3>1, PrefixesOf
  <2>2. QED
    BY <2>1 DEF Covers
<1>5. Taken(n, P, g) \in Seq(Seq(B)) /\ Picks(Taken(n, P, g), Chosen(n, P), n, P, g)
  BY <1>1, <1>4, TakenIs
<1>6. Growing(Taken(n, P, g))
  BY <1>1, <1>3, <1>5, PicksGrow
<1>7. QED
  BY <1>5, <1>6 DEF g

CappedTo(rs, cap) == IF cap = 0 THEN Len(rs) ELSE Min({Len(rs), cap})

(* A cap keeps the last requests.                                          *)
LEMMA CapKeeps ==
    ASSUME NEW S, NEW rs \in Seq(S), NEW cap \in Nat
    PROVE  LET n == CappedTo(rs, cap)
           IN  /\ n \in 0..Len(rs) /\ Cap(rs, cap) \in Seq(S) /\ Len(Cap(rs, cap)) = n
               /\ \A k \in 1..n : Cap(rs, cap)[k] = rs[Len(rs) - n + k]
               /\ Growing(rs) => Growing(Cap(rs, cap))
<1> DEFINE n == CappedTo(rs, cap)
           q == Cap(rs, cap)
<1>1. Len(rs) \in Nat /\ \A k \in 1..Len(rs) : rs[k] \in S
  BY LenProperties, ElementOfSeq
<1>2. /\ cap > 0 /\ Len(rs) > cap => n = cap
      /\ ~(cap > 0 /\ Len(rs) > cap) => n = Len(rs)
  <2>1. CASE cap = 0
    BY <1>1, <2>1 DEF CappedTo
  <2>2. CASE cap # 0
    <3>1. Min({Len(rs), cap}) \in {Len(rs), cap}
              /\ \A i \in {Len(rs), cap} : Min({Len(rs), cap}) <= i
      <4>1. {Len(rs), cap} \in SUBSET Nat /\ {Len(rs), cap} # {}
        BY <1>1
      <4>2. QED
        BY <4>1, MinOf
    <3>2. n = Min({Len(rs), cap})
      BY <2>2 DEF CappedTo
    <3> HIDE DEF n
    <3>3. QED
      BY <1>1, <2>2, <3>1, <3>2
  <2>3. QED
    BY <2>1, <2>2
<1> HIDE DEF n
<1>3. n \in 0..Len(rs) /\ q \in Seq(S) /\ Len(q) = n
          /\ \A k \in 1..n : q[k] = rs[Len(rs) - n + k]
  <2>1. CASE cap > 0 /\ Len(rs) > cap
    <3> DEFINE m == Len(rs) - cap + 1
    <3>1. q = SubSeq(rs, m, Len(rs))
      BY <2>1 DEF Cap
    <3>2. m \in Int /\ Len(rs) \in Int /\ (\A i \in m..Len(rs) : rs[i] \in S)
              /\ m <= Len(rs) /\ Len(rs) - m + 1 = cap
      BY <1>1, <2>1
    <3>3. \A k \in 1..cap : m + k - 1 = Len(rs) - cap + k
      BY <1>1
    <3> HIDE DEF m, q
    <3>4. q \in Seq(S) /\ Len(q) = cap /\ \A k \in 1..cap : q[k] = rs[m + k - 1]
      BY <3>1, <3>2, SubSeqProperties
    <3>5. n = cap
      BY <1>2, <2>1
    <3>6. QED
      BY <1>1, <2>1, <3>3, <3>4, <3>5
  <2>2. CASE ~(cap > 0 /\ Len(rs) > cap)
    <3>1. q = rs /\ n = Len(rs)
      BY <1>2, <2>2 DEF Cap
    <3> HIDE DEF q
    <3>2. QED
      BY <1>1, <3>1
  <2>3. QED
    BY <2>1, <2>2
<1> HIDE DEF q
<1>4. ASSUME Growing(rs), NEW k \in 2..n PROVE IsPrefix(q[k - 1], q[k])
  <2> DEFINE i == Len(rs) - n + k
  <2>1. k - 1 \in 1..n /\ k \in 1..n /\ i \in 2..Len(rs) /\ Len(rs) - n + (k - 1) = i - 1
    BY <1>1, <1>3
  <2>2. q[k] = rs[i] /\ q[k - 1] = rs[i - 1]
    BY <1>3, <2>1
  <2> HIDE DEF i
  <2>3. QED
    BY <1>4, <2>1, <2>2 DEF Growing
<1>5. Growing(rs) => Growing(q)
  BY <1>3, <1>4 DEF Growing
<1>6. QED
  BY <1>3, <1>5 DEF n, q

-----------------------------------------------------------------------------
(* The turns as trace-convert sees them.                                   *)
LEMMA TurnSeen ==
    ASSUME NEW m \in Conversation
    PROVE  /\ m.role \in {"user", "assistant"} /\ m \in TurnSet
           /\ ToOpenAIMessage(m) \in Histories
           /\ m.role = "assistant" => ToOpenAIMessage(m).role = "assistant"
<1>1. CASE \E t, uses : AnswerTurn(m, t, uses)
  <2>1. PICK t, uses : AnswerTurn(m, t, uses)
    BY <1>1
  <2> DEFINE w == Message("assistant", t, CallsOf(uses), NoId)
  <2>2. ToOpenAIMessage(m) = w /\ w \in Wires
    BY <2>1, SentForAnswer
  <2>3. w.role = "assistant"
    BY DEF Message
  <2>4. m.role = "assistant" /\ m \in TurnSet
    BY <2>1, AnswerTurnIs
  <2>5. QED
    BY <2>2, <2>3, <2>4, WireIsHistory
<1>2. CASE \E results, t : AskTurn(m, results, t)
  <2>1. PICK results, t : AskTurn(m, results, t)
    BY <1>2
  <2> DEFINE tools == ToolsOf(results)
             ask == Message("user", t, <<>>, NoId)
             none == Message(NoRole, <<>>, <<>>, NoId)
  <2>2. ToOpenAIMessage(m) = IF results = <<>> THEN ask
                             ELSE IF t # <<>> THEN [ask EXCEPT !.results = tools]
                             ELSE ResultsOnly(tools)
    BY <2>1, AskSent
  <2>3. m.role = "user" /\ m \in TurnSet
    BY <2>1, AskTurnIs
  <2>4. results \in Seq(Blocks) /\ t \in Words
    BY <2>1 DEF AskTurn, Given
  <2>5. tools \in Seq(Wires)
    BY <2>4, ToolsOfType
  <2>6. ask \in Wires /\ none \in Wires
    <3>1. "user" \in Strings /\ NoRole \in Strings /\ <<>> \in Seq(WireCalls)
              /\ NoId \in Ids /\ <<>> \in Words
      BY StringsAre, EmptySeq, NoIdIsId
    <3>2. QED
      BY <2>4, <3>1, MessageIs
  <2>7. ResultsOnly(tools) = IF Len(tools) = 1 THEN tools[1]
            ELSE [none EXCEPT !.results = tools]
    BY DEF ResultsOnly
  <2> HIDE DEF tools, ask, none
  <2>8. \A w \in Wires : w \in Histories /\ [w EXCEPT !.results = tools] \in Histories
    <3>1. \A w \in Wires : w \in Histories
      BY WireIsHistory
    <3>2. QED
      BY <2>5, <3>1 DEF Histories
  <2>9. Len(tools) = 1 => tools[1] \in Wires
    BY <2>5, ElementOfSeq
  <2>10. ToOpenAIMessage(m) \in Histories
    BY <2>2, <2>6, <2>7, <2>8, <2>9
  <2>11. QED
    BY <2>3, <2>10
<1>3. QED
  BY <1>1, <1>2 DEF Conversation, Turn

(* A plain turn is sent as the one message it is converted to.             *)
LEMMA PlainSent ==
    ASSUME NEW m \in Conversation, m.role = "user" => Plain(m)
    PROVE  SentFor(m) = <<ToOpenAIMessage(m)>> /\ ToOpenAIMessage(m) \in Wires
<1>1. CASE \E t, uses : AnswerTurn(m, t, uses)
  <2>1. PICK t, uses : AnswerTurn(m, t, uses)
    BY <1>1
  <2>2. QED
    BY <2>1, SentForAnswer
<1>2. CASE \E results, t : AskTurn(m, results, t)
  <2>1. PICK results, t : AskTurn(m, results, t)
    BY <1>2
  <2> DEFINE tools == ToolsOf(results)
             ask == Message("user", t, <<>>, NoId)
  <2>2. ToOpenAIMessage(m) = IF results = <<>> THEN ask
                             ELSE IF t # <<>> THEN [ask EXCEPT !.results = tools]
                             ELSE ResultsOnly(tools)
    BY <2>1, AskSent
  <2>3. m.role = "user" /\ Of("tool_result", m.blocks) = results
            /\ m.blocks = results \o Spoken(t)
    BY <2>1, AskTurnIs
  <2>4. results \in Seq(Blocks) /\ t \in Words /\ Spoken(t) \in Seq(Blocks)
    BY <2>1, SpokenIs DEF AskTurn, Given
  <2>5. tools \in Seq(Wires) /\ Len(tools) = Len(results)
    BY <2>4, ToolsOfType
  <2>6. ask \in Wires
    <3>1. "user" \in Strings /\ <<>> \in Seq(WireCalls) /\ NoId \in Ids
      BY StringsAre, EmptySeq, NoIdIsId
    <3>2. QED
      BY <2>4, <3>1, MessageIs
  <2>7. Len(tools) = 1 => ResultsOnly(tools) = tools[1] /\ tools[1] \in Wires
    BY <2>5, ElementOfSeq DEF ResultsOnly
  <2>8. results = <<>> \/ Len(m.blocks) = 1
    BY <2>3 DEF Plain
  <2> HIDE DEF tools, ask
  <2>9. ToOpenAIMessage(m) \in Wires
    <3>1. CASE results = <<>>
      BY <2>2, <2>6, <3>1
    <3>2. CASE results # <<>>
      <4>1. Len(results) + Len(Spoken(t)) = 1 /\ Len(results) \in Nat \ {0}
                /\ Len(Spoken(t)) \in Nat
        BY <2>3, <2>4, <2>8, <3>2, ConcatProperties, EmptySeq, LenProperties
      <4>2. Len(results) = 1 /\ Len(Spoken(t)) = 0
        BY <4>1
      <4>3. t = <<>>
        <5>1. t # <<>> => Len(Spoken(t)) = 1
          BY OneOrTwo DEF Spoken
        <5>2. QED
          BY <4>2, <5>1
      <4>4. QED
        BY <2>2, <2>5, <2>7, <3>2, <4>2, <4>3
    <3>3. QED
      BY <3>1, <3>2
  <2>10. ToOpenAIMessage(m).results = <<>>
    BY <2>9 DEF Wires
  <2>11. QED
    BY <2>9, <2>10 DEF SentFor, Parted
<1>3. QED
  BY <1>1, <1>2 DEF Conversation, Turn

History(s) == [i \in DOMAIN s |-> ToOpenAIMessage(s[i])]

(* The messages of a session, with each answer where it was.               *)
LEMMA HistoryIs ==
    ASSUME NEW s \in Seq(Conversation)
    PROVE  /\ History(s) \in Seq(Histories) /\ Len(History(s)) = Len(s)
           /\ \A i \in 1..Len(s) : /\ History(s)[i] = ToOpenAIMessage(s[i])
                                   /\ s[i].role = "assistant"
                                          => History(s)[i].role = "assistant"
<1>1. Len(s) \in Nat /\ DOMAIN s = 1..Len(s) /\ \A i \in 1..Len(s) : s[i] \in Conversation
  BY LenProperties, ElementOfSeq
<1>2. \A i \in 1..Len(s) : History(s)[i] = ToOpenAIMessage(s[i])
  BY <1>1 DEF History
<1>3. History(s) = [i \in 1..Len(s) |-> History(s)[i]]
  BY <1>1 DEF History
<1>4. \A i \in 1..Len(s) : History(s)[i] \in Histories
  BY <1>1, <1>2, TurnSeen
<1>5. History(s) \in Seq(Histories) /\ Len(History(s)) = Len(s)
  BY <1>1, <1>3, <1>4, IsSequence
<1>6. QED
  BY <1>1, <1>2, <1>5, TurnSeen

(* Without the results of several, a request is what a session has of it.  *)
LEMMA PlainHistory ==
    ASSUME NEW s \in Seq(Conversation), \A i \in DOMAIN s : s[i].role = "user"
               => Plain(s[i])
    PROVE  ToOpenAI(s) = History(s)
<1>1. Len(s) \in Nat /\ DOMAIN s = 1..Len(s) /\ \A i \in 1..Len(s) : s[i] \in Conversation
  BY LenProperties, ElementOfSeq
<1>2. \A i \in 1..Len(s) : Sends[s[i]] = <<ToOpenAIMessage(s[i])>>
          /\ ToOpenAIMessage(s[i]) \in Wires
  BY <1>1, PlainSent DEF Sends
<1>3. \A i \in 1..Len(s) : History(s)[i] = ToOpenAIMessage(s[i])
  BY HistoryIs
<1>4. History(s) \in Seq(Wires)
  <2>1. History(s) = [i \in 1..Len(s) |-> History(s)[i]]
    BY <1>1 DEF History
  <2>2. \A i \in 1..Len(s) : History(s)[i] \in Wires
    BY <1>2, <1>3
  <2>3. QED
    BY <1>1, <2>1, <2>2, IsSequence
<1>5. Maps(Sends, s, History(s))
  BY <1>1, <1>2, <1>3, HistoryIs DEF Maps
<1>6. Spread(s, Sends) = History(s)
  BY <1>4, <1>5, SpreadList
<1>7. QED
  BY <1>6, SentIs

-----------------------------------------------------------------------------
(* Every turn is sent, so no request is empty after the first.             *)
LEMMA SentNotEmpty ==
    ASSUME NEW s \in Seq(Conversation), s # <<>>
    PROVE  ToOpenAI(s) # <<>>
<1> DEFINE m == Last(s)
           w == ToOpenAIMessage(m)
           front == ToOpenAI(Front(s))
           sent == SentFor(m)
<1>1. m \in Conversation /\ Front(s) \in Seq(Conversation) /\ s = Append(Front(s), m)
  BY OtherLast
<1>2. front \in Seq(Wires) /\ sent \in Seq(Wires) /\ ToOpenAI(s) = front \o sent
  BY <1>1, SentGrows
<1>3. w \in Histories
  BY <1>1, TurnSeen
<1>4. sent = Parted(w)
  BY DEF SentFor
<1> HIDE DEF m, w, front, sent
<1>5. sent # <<>>
  <2>1. CASE w.results # <<>>
    <3> DEFINE first == <<[w EXCEPT !.results = <<>>]>>
               rest == w.results
    <3>1. rest \in Seq(Wires) /\ sent = first \o rest
      BY <1>3, <1>4, <2>1 DEF Histories, Parted
    <3>2. first \in Seq({first[1]}) /\ Len(first) = 1
      BY OneOrTwo
    <3> HIDE DEF first, rest
    <3>3. Len(sent) = Len(first) + Len(rest) /\ Len(rest) \in Nat
      <4> DEFINE B == Wires \cup {first[1]}
      <4>1. first \in Seq(B) /\ rest \in Seq(B)
        BY <3>1, <3>2, SeqMonotonic
      <4> HIDE DEF B
      <4>2. QED
        BY <3>1, <4>1, ConcatProperties, LenProperties
    <3>4. QED
      BY <3>2, <3>3, EmptySeq
  <2>2. CASE w.results = <<>>
    BY <1>4, <2>2, OneOrTwo DEF Parted
  <2>3. QED
    BY <2>1, <2>2
<1>6. QED
  BY <1>2, <1>5, ConcatEqualIffEmpty

(* A longer conversation sends more.                                       *)
LEMMA SentPrefix ==
    ASSUME NEW s \in Seq(Conversation), NEW i \in 0..Len(s), NEW j \in i..Len(s)
    PROVE  /\ SubSeq(s, 1, i) \in Seq(Conversation) /\ Len(SubSeq(s, 1, i)) = i
           /\ ToOpenAI(SubSeq(s, 1, i)) \in Seq(Wires)
           /\ IsPrefix(ToOpenAI(SubSeq(s, 1, i)), ToOpenAI(SubSeq(s, 1, j)))
<1> DEFINE a == SubSeq(s, 1, i)
           b == SubSeq(s, i + 1, j)
           c == SubSeq(s, 1, j)
<1>1. /\ a \in Seq(Conversation) /\ b \in Seq(Conversation) /\ c \in Seq(Conversation)
      /\ c = a \o b /\ Len(a) = i
  BY PrefixesOf
<1> HIDE DEF a, b, c
<1>2. Sends \in Makers(Conversation, Wires)
  BY TurnFunctions
<1>3. /\ ToOpenAI(a) = Spread(a, Sends) /\ ToOpenAI(b) = Spread(b, Sends)
             /\ ToOpenAI(c) = Spread(c, Sends)
      /\ ToOpenAI(a) \in Seq(Wires) /\ ToOpenAI(b) \in Seq(Wires)
  BY <1>1, SentIs
<1>4. Spread(c, Sends) = Spread(a, Sends) \o Spread(b, Sends)
  BY <1>1, <1>2, SpreadConcat
<1>5. ToOpenAI(c) = ToOpenAI(a) \o ToOpenAI(b)
  BY <1>3, <1>4
<1> DEFINE p == ToOpenAI(a)
           q == ToOpenAI(b)
<1>6. p \in Seq(Wires) /\ q \in Seq(Wires) /\ ToOpenAI(c) = p \o q
  BY <1>3, <1>5
<1> HIDE DEF p, q
<1>7. IsPrefix(p, p \o q)
  BY <1>6, PrefixOf
<1>8. QED
  BY <1>1, <1>3, <1>6, <1>7 DEF p, a, c

(* The requests of a conversation, at its answers.                         *)
Answers(s) == {i \in 1..Len(s) : s[i].role = "assistant"}
Asking(s) == [i \in 1..Len(s) |-> ToOpenAI(SubSeq(s, 1, i - 1))]

(* They are taken at the answers, grow, and none is empty.                 *)
LEMMA RequestsTaken ==
    ASSUME NEW s \in Seq(Conversation), s[1].role = "user"
    PROVE  /\ RequestsFor(s) \in Seq(Seq(Wires)) /\ Growing(RequestsFor(s))
           /\ Picks(RequestsFor(s), Chosen(Len(s), Answers(s)), Len(s), Answers(s),
                  Asking(s))
           /\ \A k \in 1..Len(RequestsFor(s)) : RequestsFor(s)[k] # <<>>
<1> DEFINE n == Len(s)
           P == Answers(s)
           g == Asking(s)
           t == Taken(n, P, g)
           c == Chosen(n, P)
<1>1. n \in Nat /\ \A i \in 1..n : i \in P <=> s[i].role = "assistant"
  BY LenProperties DEF Answers
<1>2. \A i \in 1..n : g[i] = ToOpenAI(SubSeq(s, 1, i - 1))
  BY DEF Asking
<1>3. RequestsFor(s) = t
  <2>1. AskedAt(s) = [i \in 1..n |-> IF i \in P THEN <<g[i]>> ELSE <<>>]
    BY <1>1, <1>2 DEF AskedAt
  <2>2. QED
    BY <2>1 DEF RequestsFor, Taken
<1> HIDE DEF P, g
<1>4. Covers(g, n, Seq(Wires))
  <2>1. ASSUME NEW i \in 1..n PROVE g[i] \in Seq(Wires)
    <3>1. i - 1 \in 0..Len(s) /\ i - 1 \in i - 1..Len(s)
      BY <1>1
    <3>2. QED
      BY <1>2, <3>1, SentPrefix
  <2>2. QED
    BY <2>1 DEF Covers
<1>5. t \in Seq(Seq(Wires)) /\ Picks(t, c, n, P, g)
  BY <1>1, <1>4, TakenIs
<1>6. ASSUME NEW i \in 1..n, NEW j \in 1..n, i < j PROVE IsPrefix(g[i], g[j])
  <2>1. i - 1 \in 0..Len(s) /\ j - 1 \in i - 1..Len(s)
    BY <1>1, <1>6
  <2>2. QED
    BY <1>2, <2>1, SentPrefix
<1> HIDE DEF t, c
<1>7. Growing(t)
  BY <1>1, <1>5, <1>6, PicksGrow
<1>8. ASSUME NEW k \in 1..Len(t) PROVE t[k] # <<>>
  <2>1. c \in Seq(1..n) /\ Len(t) = Len(c) /\ c[k] \in P /\ t[k] = g[c[k]]
    BY <1>5 DEF Picks
  <2>2. c[k] \in 1..n
    BY <2>1, ElementOfSeq
  <2> DEFINE i == c[k]
  <2>3. i \in 1..n /\ i \in P /\ t[k] = g[i]
    BY <2>1, <2>2
  <2> HIDE DEF i
  <2>4. i # 1 /\ i - 1 \in 0..Len(s) /\ i - 1 \in i - 1..Len(s) /\ i - 1 # 0
    BY <1>1, <2>3
  <2>5. SubSeq(s, 1, i - 1) \in Seq(Conversation) /\ Len(SubSeq(s, 1, i - 1)) = i - 1
    BY <2>4, SentPrefix
  <2>6. SubSeq(s, 1, i - 1) # <<>>
    BY <2>4, <2>5, EmptySeq
  <2>7. QED
    BY <1>2, <2>3, <2>5, <2>6, SentNotEmpty
<1>9. QED
  BY <1>3, <1>5, <1>7, <1>8 DEF P, g, t, c

-----------------------------------------------------------------------------
(* The last of what came up to a place, and what came before it.           *)
LEMMA UptoFront ==
    ASSUME NEW B, NEW h \in Seq(B), NEW i \in 1..Len(h)
    PROVE  Front(SubSeq(h, 1, i)) = SubSeq(h, 1, i - 1) /\ Last(SubSeq(h, 1, i)) = h[i]
<1> DEFINE r == SubSeq(h, 1, i)
           q == SubSeq(h, 1, i - 1)
<1>1. q \in Seq(B) /\ h[i] \in B /\ r = Append(q, h[i])
  BY UptoLast
<1> HIDE DEF q, r
<1>2. r \in Seq(B) /\ r # <<>>
  BY <1>1, AppendProperties
<1>3. Front(r) \in Seq(B) /\ Last(r) \in B /\ r = Append(Front(r), Last(r))
  BY <1>1, <1>2, OtherLast
<1>4. Front(r) = q /\ Last(r) = h[i]
  BY <1>1, <1>3, AppendInjective
<1>5. QED
  BY <1>4 DEF q, r

(* With plain turns, a request is the session before the answer.           *)
LEMMA PlainRequest ==
    ASSUME NEW s \in Seq(Conversation), \A i \in DOMAIN s : s[i].role = "user"
               => Plain(s[i]),
           NEW i \in 1..Len(s)
    PROVE  ToOpenAI(SubSeq(s, 1, i - 1)) = SubSeq(History(s), 1, i - 1)
<1> DEFINE a == SubSeq(s, 1, i - 1)
           h == History(s)
           b == SubSeq(h, 1, i - 1)
<1>1. Len(s) \in Nat /\ DOMAIN s = 1..Len(s) /\ i - 1 \in 0..Len(s)
          /\ i - 1 \in i - 1..Len(s)
  BY LenProperties
<1>2. /\ h \in Seq(Histories) /\ Len(h) = Len(s)
      /\ \A k \in 1..Len(s) : h[k] = ToOpenAIMessage(s[k])
  BY HistoryIs
<1>3. a \in Seq(Conversation) /\ Len(a) = i - 1 /\ \A k \in 1..i - 1 : a[k] = s[k]
  BY <1>1, PrefixesOf
<1> HIDE DEF h
<1>4. b \in Seq(Histories) /\ Len(b) = i - 1 /\ \A k \in 1..i - 1 : b[k] = h[k]
  BY <1>1, <1>2, PrefixesOf
<1> HIDE DEF a, b
<1>5. \A k \in DOMAIN a : a[k].role = "user" => Plain(a[k])
  <2>1. DOMAIN a = 1..i - 1
    BY <1>3, LenProperties
  <2>2. QED
    BY <1>1, <1>3, <2>1
<1>6. ToOpenAI(a) = History(a)
  BY <1>3, <1>5, PlainHistory
<1>7. /\ History(a) \in Seq(Histories) /\ Len(History(a)) = i - 1
      /\ \A k \in 1..i - 1 : History(a)[k] = ToOpenAIMessage(a[k])
  BY <1>3, HistoryIs
<1>8. \A k \in 1..Len(History(a)) : History(a)[k] = b[k]
  BY <1>1, <1>2, <1>3, <1>4, <1>7
<1>9. History(a) = b
  BY <1>4, <1>7, <1>8, SeqEqual
<1>10. QED
  BY <1>6, <1>9 DEF a, b, h

(* The trace of a session has its last requests, each with its answer.     *)
Recorded(rs, all) ==
    /\ Len(rs) <= Len(all)
    /\ \A k \in 1..Len(rs) : /\ Front(rs[k]) = all[Len(all) - Len(rs) + k]
                             /\ Last(rs[k]).role = "assistant"

(* With a cap, the last of them; what was recorded if the turns are plain. *)
LEMMA ClaudeIs ==
    ASSUME NEW s \in Seq(Conversation), s[1].role = "user", NEW cap \in Nat
    PROVE  /\ ClaudeRequests(s, cap) \in Seq(Seq(Histories))
                  /\ Growing(ClaudeRequests(s, cap))
           /\ Len(ClaudeRequests(s, cap)) = CappedTo(RequestsFor(s), cap)
           /\ (\A i \in DOMAIN s : s[i].role = "user" => Plain(s[i])) =>
                 Recorded(ClaudeRequests(s, cap), RequestsFor(s))
<1> DEFINE n == Len(s)
           P == Answers(s)
           h == History(s)
           g == [i \in 1..n |-> SubSeq(h, 1, i)]
           t == Taken(n, P, g)
           c == Chosen(n, P)
           all == RequestsFor(s)
           q == ClaudeRequests(s, cap)
           m == CappedTo(t, cap)
<1>1. n \in Nat /\ DOMAIN s = 1..n /\ \A i \in 1..n : i \in P <=> s[i].role = "assistant"
  BY LenProperties DEF Answers
<1>2. /\ h \in Seq(Histories) /\ Len(h) = n
      /\ \A i \in 1..n : s[i].role = "assistant" => h[i].role = "assistant"
  BY HistoryIs
<1>3. q = Cap(t, cap)
  <2>1. [i \in DOMAIN s |-> IF s[i].role = "assistant" THEN <<SubSeq(h, 1, i)>> ELSE <<>>]
           = [i \in 1..n |-> IF i \in P THEN <<g[i]>> ELSE <<>>]
    BY <1>1
  <2>2. QED
    BY <2>1 DEF ClaudeRequests, Taken, History
<1> HIDE DEF P, h
<1>4. t \in Seq(Seq(Histories)) /\ Growing(t) /\ Picks(t, c, n, P, g)
  <2>1. n \in 0..Len(h)
    BY <1>1, <1>2
  <2>2. QED
    BY <1>2, <2>1, PrefixesTaken
<1>5. all \in Seq(Seq(Wires)) /\ Picks(all, c, n, P, Asking(s))
  BY RequestsTaken DEF P
<1>6. \A i \in 1..n : g[i] = SubSeq(h, 1, i)
          /\ Asking(s)[i] = ToOpenAI(SubSeq(s, 1, i - 1))
  BY DEF Asking
<1> HIDE DEF g, t, c, all, q, m
<1>7. Len(t) = Len(c) /\ Len(all) = Len(c) /\ c \in Seq(1..n) /\ Len(c) \in Nat
  BY <1>4, <1>5, LenProperties DEF Picks
<1>8. /\ q \in Seq(Seq(Histories)) /\ Growing(q) /\ m \in 0..Len(t) /\ Len(q) = m
      /\ \A k \in 1..m : q[k] = t[Len(t) - m + k]
  BY <1>3, <1>4, CapKeeps DEF m
<1>9. m = CappedTo(all, cap)
  BY <1>7 DEF CappedTo, m
<1>10. ASSUME \A i \in DOMAIN s : s[i].role = "user" => Plain(s[i]), NEW k \in 1..Len(q)
       PROVE  Front(q[k]) = all[Len(all) - Len(q) + k] /\ Last(q[k]).role = "assistant"
  <2> DEFINE p == Len(all) - Len(q) + k
             i == c[p]
  <2>1. p \in 1..Len(c) /\ q[k] = t[p]
    BY <1>7, <1>8
  <2> HIDE DEF p
  <2>2. i \in 1..n /\ i \in P /\ t[p] = g[i] /\ all[p] = Asking(s)[i]
    <3>1. c[p] \in 1..n
      BY <1>7, <2>1, ElementOfSeq
    <3>2. QED
      BY <1>4, <1>5, <2>1, <3>1 DEF Picks
  <2> HIDE DEF i
  <2>3. q[k] = SubSeq(h, 1, i) /\ all[p] = ToOpenAI(SubSeq(s, 1, i - 1))
    BY <1>6, <2>1, <2>2
  <2>4. Front(q[k]) = SubSeq(h, 1, i - 1) /\ Last(q[k]) = h[i]
    <3>1. i \in 1..Len(h)
      BY <1>2, <2>2
    <3>2. Front(SubSeq(h, 1, i)) = SubSeq(h, 1, i - 1) /\ Last(SubSeq(h, 1, i)) = h[i]
      BY <1>2, <3>1, UptoFront
    <3>3. QED
      BY <2>3, <3>2
  <2>5. ToOpenAI(SubSeq(s, 1, i - 1)) = SubSeq(h, 1, i - 1)
    BY <1>10, <2>2, PlainRequest DEF h
  <2>6. h[i].role = "assistant"
    BY <1>1, <1>2, <2>2
  <2>7. QED
    BY <2>3, <2>4, <2>5, <2>6 DEF p
<1>11. Len(q) <= Len(all)
  BY <1>7, <1>8
<1>12. QED
  BY <1>8, <1>9, <1>10, <1>11 DEF Recorded, q, all, m

-----------------------------------------------------------------------------
(* The turns of a session are found in its file again.                     *)
LineTurns == [type : Strings, message : TurnSet]
TurnLines(s) == [i \in DOMAIN s |-> [type |-> s[i].role, message |-> s[i]]]
FileLines(s) == <<[type |-> "summary", message |-> Prompt]>> \o TurnLines(s)

(* Lines that are not turns are skipped, no turn is.                       *)
LEMMA TurnsExtracted ==
    ASSUME NEW s \in Seq(Conversation), \A i \in DOMAIN s : s[i].blocks # <<>>
    PROVE  ExtractTurns(FileLines(s)) = s
<1> DEFINE keep == [l \in LineTurns |->
                       IF l.type \in {"user", "assistant"} /\ l.message.blocks # <<>>
                           THEN <<l>> ELSE <<>>]
           first == [type |-> "summary", message |-> Prompt]
           rest == TurnLines(s)
           lines == FileLines(s)
           kept == Filter(lines, LAMBDA l : l.type \in {"user", "assistant"}
                   /\ l.message.blocks # <<>>)
<1>1. Len(s) \in Nat /\ DOMAIN s = 1..Len(s) /\ \A i \in 1..Len(s) : s[i] \in Conversation
  BY LenProperties, ElementOfSeq
<1>2. \A i \in 1..Len(s) : s[i].role \in {"user", "assistant"} /\ s[i] \in TurnSet
          /\ s[i].blocks # <<>>
  BY <1>1, TurnSeen
<1>3. ASSUME NEW i \in 1..Len(s)
      PROVE  rest[i] \in LineTurns /\ rest[i].type = s[i].role /\ rest[i].message = s[i]
  <2>1. rest[i] = [type |-> s[i].role, message |-> s[i]]
    BY <1>1 DEF TurnLines
  <2>2. s[i].role \in Strings /\ s[i] \in TurnSet
    BY <1>2, StringsAre
  <2> HIDE DEF rest
  <2>3. QED
    BY <2>1, <2>2 DEF LineTurns
<1>4. rest \in Seq(LineTurns) /\ Len(rest) = Len(s) /\ DOMAIN rest = 1..Len(s)
  <2>1. rest = [i \in 1..Len(s) |-> rest[i]]
    BY <1>1 DEF TurnLines
  <2> HIDE DEF rest
  <2>2. QED
    BY <1>1, <1>3, <2>1, IsSequence
<1>5. first \in LineTurns /\ first.type = "summary"
  <2>1. "summary" \in Strings /\ Prompt \in TurnSet
    <3>1. Prompt \in Conversation
      <4>1. <<Prompt>> \in Seq(Conversation)
        BY FirstTurn
      <4>2. QED
        BY <4>1, ElementOfSeq, OneOrTwo, 1 \in 1..1
    <3>2. QED
      BY <3>1, StringsAre, TurnSeen
  <2>2. QED
    BY <2>1 DEF LineTurns
<1>6. keep \in Makers(LineTurns, LineTurns)
  <2>1. \A l \in LineTurns :
           (IF l.type \in {"user", "assistant"} /\ l.message.blocks # <<>> THEN <<l>>
               ELSE <<>>)
              \in Seq(LineTurns)
    BY EmptySeq, OneOrTwo
  <2>2. QED
    BY <2>1 DEF Makers
<1>7. /\ keep[first] = <<>>
      /\ \A i \in 1..Len(s) : keep[rest[i]] = <<rest[i]>>
  <2>1. \A l \in LineTurns :
           keep[l] = IF l.type \in {"user", "assistant"} /\ l.message.blocks # <<>>
               THEN <<l>> ELSE <<>>
    OBVIOUS
  <2>2. \A i \in 1..Len(s) : rest[i] \in LineTurns
    BY <1>4, ElementOfSeq
  <2> HIDE DEF keep, first, rest
  <2>3. \A i \in 1..Len(s) : rest[i].type \in {"user", "assistant"}
            /\ rest[i].message.blocks # <<>>
    BY <1>2, <1>3
  <2>4. QED
    BY <1>5, <2>1, <2>2, <2>3
<1>8. lines = <<first>> \o rest
  BY DEF FileLines
<1> HIDE DEF first, rest
<1>9. <<first>> \in Seq(LineTurns) /\ lines \in Seq(LineTurns)
  <2>1. <<first>> \in Seq(LineTurns)
    BY <1>5, OneOrTwo
  <2>2. QED
    BY <1>4, <1>8, <2>1, ConcatProperties
<1>10. kept = Spread(lines, keep)
  <2>1. \A i \in DOMAIN lines : lines[i] \in LineTurns
    <3> HIDE DEF lines
    <3>1. QED
      BY <1>9, LenProperties, ElementOfSeq
  <2> HIDE DEF lines
  <2>2. [i \in DOMAIN lines |->
           IF lines[i].type \in {"user", "assistant"} /\ lines[i].message.blocks # <<>>
           THEN <<lines[i]>> ELSE <<>>] = [i \in DOMAIN lines |-> keep[lines[i]]]
    BY <2>1
  <2> HIDE DEF keep
  <2>3. QED
    BY <2>2 DEF Filter, Spread
<1> HIDE DEF keep
<1>11. Spread(lines, keep) = Spread(<<first>>, keep) \o Spread(rest, keep)
  <2> HIDE DEF lines
  <2>1. QED
    BY <1>4, <1>6, <1>8, <1>9, SpreadConcat
<1>12. Spread(<<first>>, keep) = <<>>
  BY <1>5, <1>6, <1>7, SpreadOne
<1>13. Spread(rest, keep) = rest
  <2>1. Maps(keep, rest, rest)
    BY <1>4, <1>7 DEF Maps
  <2>2. QED
    BY <1>4, <2>1, SpreadList
<1>14. Spread(lines, keep) = rest
  BY <1>4, <1>11, <1>12, <1>13, ConcatEmptySeq
<1>15. ExtractTurns(lines) = [i \in DOMAIN kept |-> kept[i].message]
  BY DEF ExtractTurns
<1> HIDE DEF kept, lines
<1>16. kept = rest
  BY <1>10, <1>14
<1>17. ExtractTurns(lines) = [i \in DOMAIN rest |-> rest[i].message]
  BY <1>15, <1>16
<1>18. \A i \in 1..Len(s) : rest[i].message = s[i]
  BY <1>3
<1> DEFINE u == [i \in DOMAIN rest |-> rest[i].message]
<1>19. u = [i \in 1..Len(s) |-> u[i]] /\ \A i \in 1..Len(s) : u[i] = s[i]
  BY <1>4, <1>18
<1>20. u \in Seq(Conversation) /\ Len(u) = Len(s)
  <2> HIDE DEF u
  <2>1. \A i \in 1..Len(s) : u[i] \in Conversation
    BY <1>1, <1>19
  <2>2. QED
    BY <1>1, <1>19, <2>1, IsSequence
<1> HIDE DEF u
<1>21. u = s
  BY <1>19, <1>20, SeqEqual
<1>22. QED
  BY <1>17, <1>21 DEF u, lines

-----------------------------------------------------------------------------
(* The texts of a session, and what a file of requests has.                *)
Opening(system) == IF system THEN <<Message("system", <<"system">>, <<>>, NoId)>>
        ELSE <<>>
Plainly(s) == [i \in DOMAIN s |-> Message(s[i].role, Joined(Of("text", s[i].blocks)),
        <<>>, NoId)]

(* They are messages.                                                      *)
LEMMA TextsType ==
    ASSUME NEW s \in Seq(Conversation), NEW system \in BOOLEAN
    PROVE  Opening(system) \o Plainly(s) \in Seq(Wires)
<1>1. Len(s) \in Nat /\ DOMAIN s = 1..Len(s) /\ \A i \in 1..Len(s) : s[i] \in Conversation
  BY LenProperties, ElementOfSeq
<1>2. <<>> \in Seq(WireCalls) /\ NoId \in Ids
  BY EmptySeq, NoIdIsId
<1>3. Opening(system) \in Seq(Wires)
  <2> DEFINE w == Message("system", <<"system">>, <<>>, NoId)
  <2>1. "system" \in Strings /\ <<"system">> \in Words
    BY StringsAre, OneOrTwo DEF Words
  <2>2. w \in Wires
    BY <1>2, <2>1, MessageIs
  <2>3. Opening(system) = IF system THEN <<w>> ELSE <<>>
    BY DEF Opening
  <2> HIDE DEF w
  <2>4. QED
    BY <2>2, <2>3, EmptySeq, OneOrTwo
<1>4. Plainly(s) \in Seq(Wires)
  <2> DEFINE t == Plainly(s)
  <2>1. t = [i \in 1..Len(s) |-> t[i]]
    BY <1>1 DEF Plainly
  <2>2. ASSUME NEW i \in 1..Len(s) PROVE t[i] \in Wires
    <3>1. t[i] = Message(s[i].role, Joined(Of("text", s[i].blocks)), <<>>, NoId)
      BY <1>1 DEF Plainly
    <3>2. s[i].role \in Strings /\ s[i].blocks \in Seq(Blocks)
      BY <1>1, TurnSeen DEF TurnSet
    <3>3. Of("text", s[i].blocks) \in Seq(Blocks)
      BY <3>2, OfTypeIs
    <3>4. Joined(Of("text", s[i].blocks)) \in Words
      BY <3>3, JoinedIs
    <3>5. QED
      BY <1>2, <3>1, <3>2, <3>4, MessageIs
  <2> HIDE DEF t
  <2>3. t \in Seq(Wires)
    BY <1>1, <2>1, <2>2, IsSequence
  <2>4. QED
    BY <2>3 DEF t
<1>5. QED
  BY <1>3, <1>4, ConcatProperties

(* The requests of ShareGPT messages grow.                                 *)
LEMMA ShareGPTIs ==
    ASSUME NEW s \in Seq(Histories), NEW cap \in Nat
    PROVE  ShareGPTRequests(s, cap) \in Seq(Seq(Histories))
               /\ Growing(ShareGPTRequests(s, cap))
<1> DEFINE q == ShareGPTRequests(s, cap)
           n == Min({Len(s), cap * 2})
           P == {i \in 1..n : s[i].role = "assistant"}
           g == [i \in 1..n |-> SubSeq(s, 1, i)]
           t == FlattenSeq([i \in 1..n |->
                   IF s[i].role = "assistant" THEN <<SubSeq(s, 1, i)>> ELSE <<>>])
<1>1. Len(s) \in Nat /\ cap * 2 \in Nat
  BY LenProperties
<1>2. n \in 0..Len(s)
  <2>1. {Len(s), cap * 2} \in SUBSET Nat /\ {Len(s), cap * 2} # {}
    BY <1>1
  <2>2. n \in {Len(s), cap * 2} /\ n <= Len(s)
    BY <2>1, MinOf
  <2> HIDE DEF n
  <2>3. QED
    BY <1>1, <2>2
<1>3. q = <<>> \/ q = t \/ q = <<s>>
  BY DEF ShareGPTRequests
<1> HIDE DEF n
<1>4. t = Taken(n, P, g)
  <2>1. [i \in 1..n |-> IF s[i].role = "assistant" THEN <<SubSeq(s, 1, i)>> ELSE <<>>]
           = [i \in 1..n |-> IF i \in P THEN <<g[i]>> ELSE <<>>]
    OBVIOUS
  <2>2. QED
    BY <2>1 DEF Taken
<1> HIDE DEF t
<1>5. t \in Seq(Seq(Histories)) /\ Growing(t)
  <2> HIDE DEF P
  <2>1. Taken(n, P, g) \in Seq(Seq(Histories)) /\ Growing(Taken(n, P, g))
    BY <1>2, PrefixesTaken
  <2>2. QED
    BY <1>4, <2>1
<1>6. <<>> \in Seq(Seq(Histories)) /\ <<s>> \in Seq(Seq(Histories)) /\ Len(<<s>>) = 1
          /\ Len(<<>>) = 0
  BY EmptySeq, OneOrTwo
<1>7. Growing(<<>>) /\ Growing(<<s>>)
  BY <1>6 DEF Growing
<1> HIDE DEF q
<1>8. QED
  BY <1>3, <1>5, <1>6, <1>7 DEF q

(* Recorded requests are not empty, so all are kept.                       *)
LEMMA RequestsKept ==
    ASSUME NEW rs \in Seq(Seq(Wires)), \A k \in 1..Len(rs) : rs[k] # <<>>
    PROVE  Filter(rs, LAMBDA r : r # <<>>) = rs
<1> DEFINE keep == [r \in Seq(Wires) |-> IF r # <<>> THEN <<r>> ELSE <<>>]
           kept == Filter(rs, LAMBDA r : r # <<>>)
<1>1. Len(rs) \in Nat /\ DOMAIN rs = 1..Len(rs)
          /\ \A k \in 1..Len(rs) : rs[k] \in Seq(Wires)
  BY LenProperties, ElementOfSeq
<1>2. [i \in DOMAIN rs |-> IF rs[i] # <<>> THEN <<rs[i]>> ELSE <<>>]
          = [i \in DOMAIN rs |-> keep[rs[i]]]
  BY <1>1
<1>3. \A k \in 1..Len(rs) : keep[rs[k]] = <<rs[k]>>
  BY <1>1
<1> HIDE DEF keep
<1>4. kept = Spread(rs, keep)
  BY <1>2 DEF Filter, Spread
<1>5. Maps(keep, rs, rs)
  BY <1>3 DEF Maps
<1>6. Spread(rs, keep) = rs
  BY <1>5, SpreadList
<1>7. QED
  BY <1>4, <1>6

-----------------------------------------------------------------------------
(* The trace that is made of a session.                                    *)
AllPlain(s) == \A i \in DOMAIN s : s[i].role = "user" => Plain(s[i])
Traced(tr, all, s) ==
    LET lines == tr.lines
        n == Len(lines)
    IN  /\ \A k \in 1..n : Hashed(lines[k])
        /\ \A k \in 2..n : /\ IsPrefix(lines[k - 1].hash_ids, lines[k].hash_ids)
                           /\ IsPrefix(lines[k - 1].messages, lines[k].messages)
        /\ tr.format = "claude" =>
              /\ n = CappedTo(all, tr.cap)
              /\ AllPlain(s) =>
                    \A k \in 1..n :
                        LET recorded == all[Len(all) - n + k]
                        IN  /\ Front(lines[k].messages) = recorded
                            /\ Last(lines[k].messages).role = "assistant"

(* Lines that carry growing requests are a right trace.                    *)
LEMMA CarriesTraced ==
    ASSUME NEW format, NEW cap \in Nat, NEW s, NEW all, NEW q, Growing(q), NEW lines,
               Carries(lines, q),
           format = "claude" => Len(q) = CappedTo(all, cap)
               /\ (AllPlain(s) => Recorded(q, all))
    PROVE  Traced([format |-> format, cap |-> cap, lines |-> lines], all, s)
<1> DEFINE n == Len(q)
<1>1. /\ lines \in Seq(LineSet) /\ Len(lines) = n
      /\ \A k \in 1..n : lines[k].messages = q[k] /\ Hashed(lines[k])
      /\ \A k \in 2..n : IsPrefix(lines[k - 1].hash_ids, lines[k].hash_ids)
  BY DEF Carries
<1>2. n \in Nat
  BY <1>1, LenProperties
<1> HIDE DEF n
<1>3. ASSUME NEW k \in 2..n PROVE IsPrefix(lines[k - 1].messages, lines[k].messages)
  <2>1. k \in 1..n /\ k - 1 \in 1..n
    BY <1>2
  <2>2. lines[k].messages = q[k] /\ lines[k - 1].messages = q[k - 1]
    BY <1>1, <2>1
  <2>3. QED
    BY <2>2 DEF Growing, n
<1>4. ASSUME format = "claude", AllPlain(s), NEW k \in 1..n
      PROVE  /\ Front(lines[k].messages) = all[Len(all) - n + k]
             /\ Last(lines[k].messages).role = "assistant"
  <2>1. Recorded(q, all) /\ lines[k].messages = q[k]
    BY <1>1, <1>4
  <2>2. QED
    BY <2>1 DEF Recorded, n
<1>5. format = "claude" => n = CappedTo(all, cap)
  BY DEF n
<1>6. QED
  BY <1>1, <1>3, <1>4, <1>5 DEF Traced

(* So are those of every format.                                           *)
LEMMA ConvertTraced ==
    ASSUME NEW s \in Seq(Conversation), s # <<>>, s[1].role = "user", \A i \in DOMAIN s :
               s[i].blocks # <<>>,
           NEW cap \in Nat, NEW system \in BOOLEAN,
               NEW format \in {"claude", "sharegpt", "openai"}
    PROVE  LET content == CASE format = "claude" -> FileLines(s)
                            [] format = "sharegpt" -> Opening(system) \o Plainly(s)
                            [] format = "openai" -> RequestsFor(s)
           IN  Traced([format |-> format, cap |-> cap,
                   lines |-> ConvertFile(format, content, cap)],
                      RequestsFor(s), s)
<1> DEFINE all == RequestsFor(s)
           texts == Opening(system) \o Plainly(s)
           file == FileLines(s)
<1>1. CASE format = "claude"
  <2> DEFINE q == ClaudeRequests(s, cap)
             lines == CumulativeLines(q)
  <2>1. /\ q \in Seq(Seq(Histories)) /\ Growing(q) /\ Len(q) = CappedTo(all, cap)
        /\ AllPlain(s) => Recorded(q, all)
    BY ClaudeIs DEF AllPlain
  <2> HIDE DEF q
  <2>2. Carries(lines, q)
    BY <2>1, CumulativeCarry
  <2>3. ConvertFile("claude", file, cap) = lines
    <3>1. ExtractTurns(file) = s
      BY TurnsExtracted
    <3>2. QED
      BY <3>1 DEF ConvertFile, q
  <2> HIDE DEF lines, all, file
  <2>4. Traced([format |-> "claude", cap |-> cap, lines |-> lines], all, s)
    BY <2>1, <2>2, CarriesTraced
  <2>5. QED
    BY <1>1, <2>3, <2>4 DEF all, file
<1>2. CASE format = "sharegpt"
  <2> DEFINE q == ShareGPTRequests(texts, cap)
             lines == Lines(q)
  <2>1. texts \in Seq(Histories)
    BY TextsType, WireIsHistory, SeqMonotonic
  <2>2. ConvertFile("sharegpt", texts, cap) = lines
    BY DEF ConvertFile
  <2> HIDE DEF texts
  <2>3. q \in Seq(Seq(Histories)) /\ Growing(q)
    BY <2>1, ShareGPTIs
  <2> HIDE DEF q
  <2>4. Carries(lines, q)
    BY <2>3, LinesCarry
  <2> HIDE DEF lines, all
  <2>5. Traced([format |-> "sharegpt", cap |-> cap, lines |-> lines], all, s)
    BY <2>3, <2>4, CarriesTraced
  <2>6. QED
    BY <1>2, <2>2, <2>5 DEF all, texts
<1>3. CASE format = "openai"
  <2> DEFINE lines == Lines(all)
  <2>1. /\ all \in Seq(Seq(Wires)) /\ Growing(all)
        /\ \A k \in 1..Len(all) : all[k] # <<>>
    BY RequestsTaken
  <2>2. all \in Seq(Seq(Histories))
    <3>1. Seq(Wires) \subseteq Seq(Histories)
      BY WireIsHistory, SeqMonotonic
    <3>2. QED
      BY <2>1, <3>1, SeqMonotonic
  <2> HIDE DEF all
  <2>3. ConvertFile("openai", all, cap) = lines
    <3>1. Filter(all, LAMBDA r : r # <<>>) = all
      BY <2>1, RequestsKept
    <3>2. QED
      BY <3>1 DEF ConvertFile
  <2>4. Carries(lines, all)
    BY <2>1, <2>2, LinesCarry
  <2> HIDE DEF lines
  <2>5. Traced([format |-> "openai", cap |-> cap, lines |-> lines], all, s)
    BY <2>1, <2>4, CarriesTraced
  <2>6. QED
    BY <1>3, <2>3, <2>5 DEF all
<1>4. QED
  BY <1>1, <1>2, <1>3

-----------------------------------------------------------------------------
(* What was recorded is what the conversation asked.                       *)
LEMMA RequestsRecorded == RecInv => Requests = RequestsFor(conv)
<1> SUFFICES ASSUME RecInv PROVE Requests = RequestsFor(conv)
  OBVIOUS
<1>1. entries \in Seq(Entries) /\ Spread(entries, RequestOf) = RequestsFor(conv)
  BY DEF RecInv
<1>2. Requests = Spread(entries, RequestOf)
  BY <1>1, RequestsAre DEF Requests, Answered
<1>3. QED
  BY <1>1, <1>2

(* Every step keeps the trace right.                                       *)
LEMMA TraceStep ==
    ASSUME RecInv, TraceIsTheRecording, [SessionNext]_sessionVars
    PROVE  TraceIsTheRecording'
<1>1. TraceIsTheRecording <=> (pc = "converted" => Traced(trace, Requests, conv))
  BY DEF TraceIsTheRecording, Traced, CappedTo, AllPlain
<1>2. TraceIsTheRecording' <=> (pc' = "converted" => Traced(trace', Requests', conv'))
  BY DEF TraceIsTheRecording, Traced, CappedTo, AllPlain
<1>3. CASE TraceConvert
  <2>1. PICK cap \in Caps, format \in {"claude", "sharegpt", "openai"},
            system \in BOOLEAN :
           LET content == CASE format = "claude" -> SessionLines
                            [] format = "sharegpt" -> Texts(system)
                            [] format = "openai" -> Requests
           IN  trace' = [format |-> format, cap |-> cap,
                   lines |-> ConvertFile(format, content, cap)]
    BY <1>3 DEF TraceConvert
  <2>2. conv' = conv /\ entries' = entries
    BY <1>3 DEF TraceConvert
  <2>3. /\ SessionLines = FileLines(conv)
               /\ Texts(system) = Opening(system) \o Plainly(conv)
        /\ Requests = RequestsFor(conv) /\ Requests' = Requests
    <3>1. Requests' = Requests
      BY <2>2 DEF Requests, Answered, Filter
    <3>2. QED
      BY <3>1, RequestsRecorded DEF SessionLines, FileLines, TurnLines, Texts, Opening,
          Plainly
  <2>4. /\ conv \in Seq(Conversation) /\ conv # <<>> /\ conv[1].role = "user"
        /\ \A i \in DOMAIN conv : conv[i].blocks # <<>>
    BY DEF RecInv
  <2>5. cap \in Nat
    BY SessionAssumption
  <2>6. LET content == CASE format = "claude" -> FileLines(conv)
                         [] format = "sharegpt" -> Opening(system) \o Plainly(conv)
                         [] format = "openai" -> RequestsFor(conv)
        IN  Traced([format |-> format, cap |-> cap,
                lines |-> ConvertFile(format, content, cap)],
                   RequestsFor(conv), conv)
    BY <2>4, <2>5, ConvertTraced
  <2>7. Traced(trace', Requests', conv')
    BY <2>1, <2>2, <2>3, <2>6
  <2>8. QED
    BY <1>2, <2>7
<1>4. CASE Ended \/ UNCHANGED sessionVars
  <2>1. pc' = pc /\ trace' = trace /\ conv' = conv /\ entries' = entries
    BY <1>4 DEF Ended, sessionVars
  <2>2. Requests' = Requests
    BY <2>1 DEF Requests, Answered, Filter
  <2>3. QED
    BY <1>1, <1>2, <2>1, <2>2
<1>5. CASE Post \/ NextChunk \/ UpstreamEnds \/ UpstreamFails \/ Deliver \/ GoOn
          \/ EndSession
  <2>1. pc' # "converted"
    BY <1>5 DEF Post, NextChunk, UpstreamEnds, UpstreamFails, Deliver, GoOn, EndSession
  <2>2. QED
    BY <1>2, <2>1
<1>6. QED
  BY <1>3, <1>4, <1>5 DEF SessionNext

(* Whatever session is made a trace, in whatever format and with whatever  *)
(* cap, the trace is the recording of it.                                  *)
THEOREM TracesAreTheRecording == SessionSpec => []TraceIsTheRecording
<1>1. SessionInit => StreamInv /\ RecInv /\ TraceIsTheRecording
  <2>1. SessionInit => TraceIsTheRecording
    BY DEF SessionInit, TraceIsTheRecording
  <2>2. QED
    BY <2>1, StreamInit, RecInit
<1>2. StreamInv /\ RecInv /\ TraceIsTheRecording /\ [SessionNext]_sessionVars
         => (StreamInv /\ RecInv /\ TraceIsTheRecording)'
  BY StreamStep, RecStep, TraceStep
<1>3. QED
  BY <1>1, <1>2, PTL DEF SessionSpec

-----------------------------------------------------------------------------
(* The state that is no sequence keeps its type,                           *)
ControlOK ==
    /\ pc \in {"asking", "upstream", "answering", "answered", "over", "converted"}
    /\ reply \in Replies \cup {NoReply}
    /\ broken \in BOOLEAN /\ faults \in 0..MaxFaults
    /\ trace.cap \in Caps \cup {0}
    /\ trace.format \in {"none", "claude", "sharegpt", "openai"}

(* in every step.                                                          *)
LEMMA ControlStep == ControlOK /\ [SessionNext]_sessionVars => ControlOK'
<1> SUFFICES ASSUME ControlOK, [SessionNext]_sessionVars PROVE ControlOK'
  OBVIOUS
<1>1. CASE Post
  BY <1>1 DEF Post, ControlOK
<1>2. CASE NextChunk
  BY <1>2 DEF NextChunk, ControlOK
<1>3. CASE UpstreamEnds
  BY <1>3 DEF UpstreamEnds, ControlOK
<1>4. CASE UpstreamFails
  <2>1. faults < MaxFaults /\ faults' = faults + 1 /\ UNCHANGED <<reply, trace>>
    BY <1>4 DEF UpstreamFails
  <2>2. pc' \in {"asking", "answering"} /\ broken' \in BOOLEAN
    BY <1>4 DEF UpstreamFails, ControlOK
  <2>3. faults' \in 0..MaxFaults
    BY <2>1, SessionAssumption DEF ControlOK
  <2>4. QED
    BY <2>1, <2>2, <2>3 DEF ControlOK
<1>5. CASE Deliver
  <2>1. pc' \in {"asking", "answered"} /\ UNCHANGED <<reply, broken, faults, trace>>
    BY <1>5 DEF Deliver
  <2>2. QED
    BY <2>1 DEF ControlOK
<1>6. CASE GoOn \/ EndSession
  <2>1. pc' \in {"asking", "over"} /\ reply' = NoReply /\ broken' = FALSE
        /\ UNCHANGED <<faults, trace>>
    BY <1>6 DEF GoOn, EndSession, Forget
  <2>2. QED
    BY <2>1 DEF ControlOK
<1>7. CASE TraceConvert
  <2>1. PICK cap \in Caps, format \in {"claude", "sharegpt", "openai"} :
           \E lines : trace' = [format |-> format, cap |-> cap, lines |-> lines]
    BY <1>7 DEF TraceConvert
  <2>2. pc' = "converted" /\ UNCHANGED <<reply, broken, faults>>
    BY <1>7 DEF TraceConvert
  <2>3. trace'.cap = cap /\ trace'.format = format
    BY <2>1
  <2>4. QED
    BY <2>2, <2>3 DEF ControlOK
<1>8. CASE Ended \/ UNCHANGED sessionVars
  BY <1>8 DEF Ended, sessionVars, ControlOK
<1>9. QED
  BY <1>1, <1>2, <1>3, <1>4, <1>5, <1>6, <1>7, <1>8 DEF SessionNext

(* The state of a session keeps its type.                                  *)
THEOREM SessionTypeCorrect == SessionSpec => []SessionTypeOK
<1>1. SessionInit => StreamInv /\ RecInv /\ ControlOK
  <2>1. SessionInit => ControlOK
    <3>1. 0 \in 0..MaxFaults
      BY SessionAssumption
    <3>2. NoTrace.cap = 0 /\ NoTrace.format = "none"
      BY DEF NoTrace
    <3>3. SessionInit => /\ pc = "asking" /\ reply = NoReply /\ broken = FALSE
                         /\ trace = NoTrace /\ faults = 0
      BY DEF SessionInit
    <3>4. QED
      BY <3>1, <3>2, <3>3 DEF ControlOK
  <2>2. QED
    BY <2>1, StreamInit, RecInit
<1>2. StreamInv /\ RecInv /\ ControlOK /\ [SessionNext]_sessionVars
         => (StreamInv /\ RecInv /\ ControlOK)'
  BY StreamStep, RecStep, ControlStep
<1>3. RecInv /\ ControlOK => SessionTypeOK
  <2>1. RecInv => \A i \in DOMAIN conv : conv[i].role \in {"user", "assistant"}
    <3>1. \A m \in Conversation : m.role \in {"user", "assistant"}
      BY DEF Conversation, Turn, AnswerTurn, AskTurn
    <3>2. QED
      BY <3>1, ElementOfSeq, LenProperties DEF RecInv
  <2>2. QED
    BY <2>1 DEF ControlOK, SessionTypeOK
<1>4. QED
  BY <1>1, <1>2, <1>3, PTL DEF SessionSpec
=============================================================================
