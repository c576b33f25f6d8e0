--------------------------- MODULE KeychainProofs ---------------------------
(***************************************************************************)
(* Every answer of the Keychain is explained by what its item was during   *)
(* the call, and a token that is replaced is never gone, for any number of *)
(* processes and tokens.                                                   *)
(***************************************************************************)
EXTENDS Keychain, TLAPS

\* What a set carries from one call of the framework to the next: a token to
\* be set and, behind an update that found nothing, the memory of that.
SetsFollow ==
  \A p \in Processes :
    /\ call[p] \in {"update", "add"} => token[p] \in Tokens
    /\ call[p] = "add" => NoItem \in held[p]

IInv == TypeOK /\ SetsFollow /\ AnswersExplained

\* A call that is open has seen the item; what a step leaves is added to the
\* memory of every open call and of none that has ended.
LEMMA StepHeld ==
  ASSUME TypeOK, NEW p \in Processes, NEW to, NEW v \in Tokens \cup {NoItem},
         to \in Open \cup Ended, call[p] \in Open, Step(p, to, v)
  PROVE  /\ held' \in [Processes -> SUBSET (Tokens \cup {NoItem})]
         /\ item' = v
         /\ call' = [call EXCEPT ![p] = to]
         /\ supported' = supported
         /\ \A q \in Processes : held[q] \subseteq held'[q]
         /\ \A q \in Processes : call[q] \in Open => v \in held'[q]
         /\ \A q \in Processes : call[q] \notin Open => held'[q] = held[q]
         /\ \A q \in Processes : call'[q] \in Open => item' \in held'[q]
         /\ call' \in [Processes -> {"none"} \cup Open \cup Ended]
BY DEF Step, TypeOK

LEMMA InitIInv == Init => IInv
BY KeychainAssumption DEF Init, IInv, TypeOK, SetsFollow, AnswersExplained, Open, Ended, Token

LEMMA BeginIInv ==
  ASSUME IInv, NEW p \in Processes, Begin(p)
  PROVE  IInv'
<1>1. TypeOK'
  BY KeychainAssumption DEF Begin, IInv, TypeOK, Open, Ended
<1>2. SetsFollow'
  BY KeychainAssumption DEF Begin, IInv, TypeOK, SetsFollow, Open
<1>3. AnswersExplained'
  BY DEF Begin, IInv, TypeOK, AnswersExplained
<1> QED BY <1>1, <1>2, <1>3 DEF IInv

\* A step that leaves the tokens of the calls as they are keeps the invariant
\* if the answer it gives, if any, is explained.
LEMMA StepIInv ==
  ASSUME IInv, NEW p \in Processes, NEW to, NEW v \in Tokens \cup {NoItem},
         to \in {"add"} \cup Ended, to # "read", call[p] \in Open,
         Step(p, to, v), UNCHANGED token,
         to = "add" => call[p] = "update" /\ v = NoItem,
         to = "set" => v = token[p],
         to \in {"not found", "deleted"} => v = NoItem,
         to = "duplicate" => v # NoItem /\ NoItem \in held[p]
  PROVE  IInv'
<1>1. to \in Open \cup Ended
  BY DEF Open, Ended
<1>2. /\ held' \in [Processes -> SUBSET (Tokens \cup {NoItem})]
      /\ item' = v
      /\ call' = [call EXCEPT ![p] = to]
      /\ supported' = supported
      /\ \A q \in Processes : held[q] \subseteq held'[q]
      /\ \A q \in Processes : call[q] \in Open => v \in held'[q]
      /\ \A q \in Processes : call[q] \notin Open => held'[q] = held[q]
      /\ \A q \in Processes : call'[q] \in Open => item' \in held'[q]
      /\ call' \in [Processes -> {"none"} \cup Open \cup Ended]
  BY <1>1, StepHeld DEF IInv
<1>3. TypeOK'
  BY <1>2 DEF IInv, TypeOK
<1>4. SetsFollow'
  BY <1>2 DEF IInv, SetsFollow, TypeOK, Ended
<1>5. AnswersExplained'
  <2> SUFFICES ASSUME NEW q \in Processes
               PROVE  /\ call'[q] = "set" => token'[q] \in held'[q]
                      /\ call'[q] = "read" =>
                           token'[q] \in {Trimmed(t) : t \in held'[q] \ {NoItem}}
                      /\ call'[q] \in {"not found", "deleted"} => NoItem \in held'[q]
                      /\ call'[q] = "duplicate" =>
                           NoItem \in held'[q] /\ held'[q] # {NoItem}
    BY DEF AnswersExplained
  <2>1. CASE q = p
    BY <2>1, <1>2 DEF IInv, TypeOK, Open
  <2>2. CASE q # p
    <3>1. call'[q] = call[q]
      BY <2>2, <1>2 DEF IInv, TypeOK
    <3>2. call[q] \in Ended => held'[q] = held[q]
      BY <1>2 DEF Open, Ended
    <3> QED BY <3>1, <3>2 DEF IInv, AnswersExplained, Ended
  <2> QED BY <2>1, <2>2
<1> QED BY <1>3, <1>4, <1>5 DEF IInv

\* The item that is read is trimmed and was there.
LEMMA ReadIInv ==
  ASSUME IInv, NEW p \in Processes, call[p] = "get", item # NoItem,
         Step(p, "read", item), token' = [token EXCEPT ![p] = Trimmed(item)]
  PROVE  IInv'
<1>1. item \in Tokens \cup {NoItem} /\ call[p] \in Open /\ "read" \in Open \cup Ended
  BY DEF IInv, TypeOK, Open, Ended
<1>2. /\ held' \in [Processes -> SUBSET (Tokens \cup {NoItem})]
      /\ item' = item
      /\ call' = [call EXCEPT ![p] = "read"]
      /\ supported' = supported
      /\ \A q \in Processes : call[q] \in Open => item \in held'[q]
      /\ \A q \in Processes : call[q] \notin Open => held'[q] = held[q]
      /\ \A q \in Processes : call'[q] \in Open => item' \in held'[q]
      /\ \A q \in Processes : held[q] \subseteq held'[q]
      /\ call' \in [Processes -> {"none"} \cup Open \cup Ended]
  BY <1>1, StepHeld DEF IInv
<1>3. Trimmed(item) \in Token
  BY <1>1, KeychainAssumption DEF Trimmed, Token
<1>4. TypeOK'
  BY <1>2, <1>3 DEF IInv, TypeOK
<1>5. SetsFollow'
  BY <1>2 DEF IInv, SetsFollow, TypeOK
<1>6. AnswersExplained'
  <2> SUFFICES ASSUME NEW q \in Processes
               PROVE  /\ call'[q] = "set" => token'[q] \in held'[q]
                      /\ call'[q] = "read" =>
                           token'[q] \in {Trimmed(t) : t \in held'[q] \ {NoItem}}
                      /\ call'[q] \in {"not found", "deleted"} => NoItem \in held'[q]
                      /\ call'[q] = "duplicate" =>
                           NoItem \in held'[q] /\ held'[q] # {NoItem}
    BY DEF AnswersExplained
  <2>1. CASE q = p
    BY <2>1, <1>1, <1>2 DEF IInv, TypeOK
  <2>2. CASE q # p
    <3>1. call'[q] = call[q] /\ token'[q] = token[q]
      BY <2>2, <1>2 DEF IInv, TypeOK
    <3>2. call[q] \in Ended => held'[q] = held[q]
      BY <1>2 DEF Open, Ended
    <3> QED BY <3>1, <3>2 DEF IInv, AnswersExplained, Ended
  <2> QED BY <2>1, <2>2
<1> QED BY <1>4, <1>5, <1>6 DEF IInv

LEMMA CallIInv ==
  ASSUME IInv, NEW p \in Processes, Call(p)
  PROVE  IInv'
<1> USE DEF Open, Ended
<1>0. item \in Tokens \cup {NoItem} /\ NoItem \notin Tokens
  BY KeychainAssumption DEF IInv, TypeOK
<1>1. CASE Begin(p)
  BY <1>1, BeginIInv
<1>2. CASE Update(p) /\ item = NoItem
  BY <1>0, <1>2, StepIInv DEF Update
<1>3. CASE Update(p) /\ item # NoItem
  <2>1. token[p] \in Tokens
    BY <1>3 DEF Update, IInv, SetsFollow
  <2> QED BY <1>3, <2>1, StepIInv DEF Update
<1>4. CASE Add(p) /\ item = NoItem
  <2>1. token[p] \in Tokens
    BY <1>4 DEF Add, IInv, SetsFollow
  <2> QED BY <1>4, <2>1, StepIInv DEF Add
<1>5. CASE Add(p) /\ item # NoItem
  <2>1. NoItem \in held[p]
    BY <1>5 DEF Add, IInv, SetsFollow
  <2> QED BY <1>0, <1>5, <2>1, StepIInv DEF Add
<1>6. CASE Get(p) /\ item = NoItem
  BY <1>0, <1>6, StepIInv DEF Get
<1>7. CASE Get(p) /\ item # NoItem
  BY <1>7, ReadIInv DEF Get
<1>8. CASE Delete(p)
  BY <1>8, StepIInv DEF Delete
<1>9. CASE Fail(p)
  BY <1>0, <1>9, StepIInv DEF Fail
<1> QED BY <1>1, <1>2, <1>3, <1>4, <1>5, <1>6, <1>7, <1>8, <1>9 DEF Call

LEMMA InvariantIInv == Spec => []IInv
<1>1. IInv /\ UNCHANGED vars => IInv'
  BY DEF vars, IInv, TypeOK, SetsFollow, AnswersExplained
<1>2. IInv /\ [Next]_vars => IInv'
  BY <1>1, CallIInv DEF Next
<1> QED BY InitIInv, <1>2, PTL DEF Spec

\* What the item, the calls and their memories are.
THEOREM Typing == Spec => []TypeOK
<1>1. IInv => TypeOK
  BY DEF IInv
<1> QED BY <1>1, InvariantIInv, PTL

\* Every answer of GetToken, SetToken and the deletion is explained by what the
\* item was during the call.
THEOREM Explained == Spec => []AnswersExplained
<1>1. IInv => AnswersExplained
  BY DEF IInv
<1> QED BY <1>1, InvariantIInv, PTL

\* keychain_set replaces a token in place: only a deletion takes it away.
THEOREM ReplacedInPlace == Spec => NeverAGap
<1> DEFINE Gap == item # NoItem /\ item' = NoItem =>
                    \E p \in Processes : call[p] = "delete" /\ call'[p] = "deleted"
<1>1. IInv /\ [Next]_vars => Gap
  <2> SUFFICES ASSUME IInv, Next, item # NoItem, item' = NoItem
               PROVE  \E p \in Processes : call[p] = "delete" /\ call'[p] = "deleted"
    BY DEF vars
  <2>1. PICK p \in Processes : Call(p)
    BY DEF Next
  <2>2. ~Begin(p) /\ ~Get(p) /\ ~Fail(p) /\ ~Add(p)
    BY DEF Begin, Get, Fail, Add, Step
  <2>3. ~Update(p)
    BY KeychainAssumption DEF Update, Step, IInv, SetsFollow
  <2>4. Delete(p)
    BY <2>1, <2>2, <2>3 DEF Call
  <2> QED BY <2>4 DEF Delete, Step, IInv, TypeOK
<1>2. IInv /\ [Next]_vars => [Gap]_vars
  BY <1>1
<1> QED BY <1>2, InvariantIInv, PTL DEF Spec, NeverAGap

=============================================================================
