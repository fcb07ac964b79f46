---------------------------- MODULE MemoryPolicy ----------------------------
(***************************************************************************)
(* What may be remembered and what it replaces: memory/policy.py over the  *)
(* records of memory/models.py.                                            *)
(*                                                                         *)
(* A statement is a value of Texts and says what it is about (Topic); how  *)
(* the word lists and overlap ratios of the policy read it is its flaws.   *)
(* There is one project; a scope names an actor and a session in it.       *)
(***************************************************************************)
EXTENDS Naturals, Sequences, FiniteSets

CONSTANTS
    Keys,       \* what a memory is about, as the proposer names it
    Texts,      \* statements
    Topic       \* the words a statement is made of, as one value

\* The kinds a proposer may name; a summary and an intent are not proposed.
ProposableKinds == {"preference", "decision", "fact"}

PinnedKinds == {"intent", "preference", "session_summary"}

\* A preference is its actor's; a decision or a fact is the project's.
OwnerOf(kind, scope) ==
    IF kind = "preference" THEN scope.actor
    ELSE IF kind \in {"intent", "session_summary"} THEN scope.session
    ELSE "project"

\* The checks of decide, in the order they run: the ones that describe an
\* attack before the ones that describe a mistake.
Checks == <<"instruction_like", "sensitive", "low_confidence", "not_established",
            "not_relevant", "not_durable", "belongs_to_rag", "belongs_to_tools">>

\* memory_id hashes the owner, the kind, the key and the statement.
MemoryId(c, scope) ==
    [kind |-> c.kind, key |-> c.key, text |-> c.text, owner |-> OwnerOf(c.kind, scope)]

AnyOwner(id, scope) == TRUE

InBounds(id, scope) == id.owner = OwnerOf(id.kind, scope)

Refusal(reason) == [decision |-> "reject", rejection |-> reason, supersedes |-> {}, key |-> ""]

Stores(verdict) == verdict.decision \in {"write", "update"}

FirstFlaw(c) ==
    Checks[CHOOSE i \in DOMAIN Checks :
             /\ Checks[i] \in c.flaws
             /\ \A j \in 1..(i - 1) : Checks[j] \notin c.flaws]

Twins(c, existing, scope) ==
    {id \in existing : id.kind = c.kind /\ id.text = c.text /\ InBounds(id, scope)}

SameStatement(c, existing, scope) ==
    {id \in Twins(c, existing, scope) : id.key = c.key}

SameKey(c, existing, scope) ==
    {id \in existing : id.kind = c.kind /\ id.key = c.key /\ InBounds(id, scope)}

SameTopic(c, existing, scope) ==
    {id \in existing : /\ c.kind = "preference" /\ id.kind = "preference"
                       /\ Topic[id.text] = Topic[c.text] /\ InBounds(id, scope)}

OwnKey(c, topic) == {c.key}

\* An update by topic keeps the key of the least id, which is a hash: any.
KeptKeys(c, topic) == {id.key : id \in topic}

Conflict(c, existing, scope) ==
    LET same == SameKey(c, existing, scope)
        topic == SameTopic(c, existing, scope)
    IN IF Twins(c, existing, scope) # {} THEN {Refusal("duplicate")}
       ELSE IF same # {}
       THEN {[decision |-> "update", rejection |-> "none", supersedes |-> same, key |-> c.key]}
       ELSE IF topic # {}
       THEN {[decision |-> "update", rejection |-> "none", supersedes |-> topic, key |-> key]
               : key \in KeptKeys(c, topic)}
       ELSE {[decision |-> "write", rejection |-> "none", supersedes |-> {}, key |-> c.key]}

\* The verdicts on candidate c among the records held to exist.
Decide(c, existing, scope) ==
    IF c.flaws # {} THEN {Refusal(FirstFlaw(c))} ELSE Conflict(c, existing, scope)

=============================================================================
