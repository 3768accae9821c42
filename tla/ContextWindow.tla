--------------------------- MODULE ContextWindow ---------------------------
(***************************************************************************)
(* The token arithmetic of clawperf/context.py: what one virtual user's    *)
(* context holds, when a turn fits in the model window and what            *)
(* prepare_turn does when it does not.  Text is abstracted to its token    *)
(* count; a history entry is abstracted to the turn that produced it.      *)
(***************************************************************************)
EXTENDS Integers, Sequences

CONSTANTS
    MaxContext,     \* --max-context-tokens, the exclusive limit of a turn
    FixedTokens,    \* system prefix, chat template and the turn's own input
    InputTokens,    \* input_tokens_per_turn, the user half of an exchange
    ReplySizes,     \* token counts the server's replies can have
    InitialPrefix,  \* user_prefix_tokens at start-up
    Increment,      \* compaction_prefix_increment
    Jitter          \* off-by-some of generated text against its target length

ASSUME ContextAssumption ==
    /\ MaxContext \in Nat
    /\ FixedTokens \in Nat
    /\ InputTokens \in Nat \ {0}
    /\ ReplySizes \subseteq Nat /\ ReplySizes # {}
    /\ InitialPrefix \in Nat
    /\ Increment \in Nat
    /\ Jitter \subseteq Int /\ Jitter # {}

-----------------------------------------------------------------------------
(* A context: the prefix length asked for, the token count of the prefix   *)
(* text actually generated, the turns in the history and their tokens.     *)
Contexts == [prefix : Int, content : Nat, history : Seq(Nat), tokens : Nat]

(* generate_random_content(n): no text for n <= 0, otherwise about n tokens *)
(* of it.                                                                  *)
GeneratedTokens(n, j) == IF n > 0 /\ n + j > 0 THEN n + j ELSE 0

NewContext(j) ==
    [prefix  |-> InitialPrefix, content |-> GeneratedTokens(InitialPrefix, j),
     history |-> <<>>, tokens |-> 0]

BaseTokens(c) == FixedTokens + c.content
ContextTokens(c) == BaseTokens(c) + c.tokens
Fits(n) == n < MaxContext

AppendHistory(c, t, reply) ==
    [c EXCEPT !.history = Append(@, t), !.tokens = @ + InputTokens + reply]

Cleared(c) == [c EXCEPT !.history = <<>>, !.tokens = 0]

Grown(c, j) ==
    [Cleared(c) EXCEPT !.prefix = @ + Increment,
                       !.content = GeneratedTokens(c.prefix + Increment, j)]

(* Faulty: grows without looking at the room that is left.                 *)
CompactedBlindly(c, j) == Grown(c, j)

(* Faulty: goes back to the whole saved context, history included.         *)
CompactedOrRestored(c, j) == IF Fits(BaseTokens(Grown(c, j))) THEN Grown(c, j) ELSE c

(* Compaction keeps the grown prefix only if the base still fits with it;  *)
(* otherwise it goes back to the saved prefix, with the history cleared.   *)
Compacted(c, j) == IF Fits(BaseTokens(Grown(c, j))) THEN Grown(c, j) ELSE Cleared(c)

(* What prepare_turn may return: the new context, whether it compacted and *)
(* whether the turn is to be skipped for lack of room.                     *)
Prepared(c, compacted) ==
    [ctx |-> c, compacted |-> compacted, overflow |-> ~Fits(ContextTokens(c))]

(* Faulty: compacts whatever does not fit, even with nothing to clear.     *)
PrepareAlwaysCompacts(c) ==
    IF Fits(ContextTokens(c)) THEN {Prepared(c, FALSE)}
    ELSE {Prepared(Compacted(c, j), TRUE) : j \in Jitter}

PrepareOutcomes(c) ==
    IF ~Fits(ContextTokens(c)) /\ Fits(BaseTokens(c))
    THEN {Prepared(Compacted(c, j), TRUE) : j \in Jitter}
    ELSE {Prepared(c, FALSE)}
=============================================================================
