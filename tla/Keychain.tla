------------------------------ MODULE Keychain ------------------------------
(***************************************************************************)
(* The Keychain item of one engine (keychain/): processes set, read and    *)
(* delete its token at the same time.  On macOS a set is two calls of the  *)
(* Security framework, an update and, when there is nothing to update, an  *)
(* add; elsewhere every call fails.  The calls of the framework themselves *)
(* are atomic and can fail for reasons of their own (a locked keychain).   *)
(***************************************************************************)
EXTENDS Integers

CONSTANTS
  Processes,
  Texts,      \* what tokens say
  Tokens,     \* the tokens that are set, with trailing newlines or without
  NoItem      \* errSecItemNotFound

Token == [text : Texts, newline : BOOLEAN]

ASSUME KeychainAssumption == Tokens \subseteq Token /\ NoItem \notin Token

VARIABLES
  supported,   \* built for macOS with cgo
  item,        \* the item of the service and account
  call,        \* per process: where its call is
  token,       \* what it sets, or has read
  held         \* history: the values of the item since its call began

vars == <<supported, item, call, token, held>>

Open   == {"update", "add", "get", "delete"}
Ended  == {"set", "read", "deleted", "not found", "duplicate", "failed"}

TypeOK ==
  /\ supported \in BOOLEAN
  /\ item \in Tokens \cup {NoItem}
  /\ call \in [Processes -> {"none"} \cup Open \cup Ended]
  /\ token \in [Processes -> Token]
  /\ held \in [Processes -> SUBSET (Tokens \cup {NoItem})]
  /\ \A p \in Processes : call[p] \in Open => item \in held[p]

Init ==
  /\ supported \in BOOLEAN
  /\ item \in Tokens \cup {NoItem}
  /\ call = [p \in Processes |-> "none"]
  /\ token \in [Processes -> Tokens]
  /\ held = [p \in Processes |-> {}]

-----------------------------------------------------------------------------

\* A process calls SetToken (of any token), GetToken or the deletion.
Begin(p) ==
  /\ call[p] \notin Open
  /\ \E c \in {"update", "get", "delete"} : call' = [call EXCEPT ![p] = c]
  /\ \E t \in Tokens : token' = [token EXCEPT ![p] = t]
  /\ held' = [held EXCEPT ![p] = {item}]
  /\ UNCHANGED <<supported, item>>

\* The call goes on to its next step, or ends, and leaves the item as v.
Step(p, to, v) ==
  /\ call' = [call EXCEPT ![p] = to]
  /\ item' = v
  /\ held' = [q \in Processes |->
                IF call[q] \in Open THEN held[q] \cup {v} ELSE held[q]]
  /\ UNCHANGED supported

\* Slip: the item is deleted first and added again.
UpdateByDeletion(p) ==
  /\ call[p] = "update" /\ supported
  /\ Step(p, "add", NoItem)
  /\ UNCHANGED token

\* SecItemUpdate
Update(p) ==
  /\ call[p] = "update" /\ supported
  /\ IF item = NoItem THEN Step(p, "add", item) ELSE Step(p, "set", token[p])
  /\ UNCHANGED token

\* Slip: a duplicate is taken for success.
AddOrKeep(p) ==
  /\ call[p] = "add"
  /\ IF item = NoItem THEN Step(p, "set", token[p]) ELSE Step(p, "set", item)
  /\ UNCHANGED token

\* SecItemAdd, whose status is the caller's: a duplicate is an error.
Add(p) ==
  /\ call[p] = "add"
  /\ IF item = NoItem THEN Step(p, "set", token[p]) ELSE Step(p, "duplicate", item)
  /\ UNCHANGED token

\* GetToken trims the newlines at the end.
Trimmed(t) == [text |-> t.text, newline |-> FALSE]

\* Slip: the status is not looked at.
GetUnchecked(p) ==
  /\ call[p] = "get" /\ supported
  /\ Step(p, "read", item)
  /\ token' = [token EXCEPT ![p] = item]

\* SecItemCopyMatching.
Get(p) ==
  /\ call[p] = "get" /\ supported
  /\ Step(p, IF item = NoItem THEN "not found" ELSE "read", item)
  /\ token' = IF item = NoItem THEN token
              ELSE [token EXCEPT ![p] = Trimmed(item)]

\* SecItemDelete; an item that is absent already is no error.
Delete(p) ==
  /\ call[p] = "delete" /\ supported
  /\ Step(p, "deleted", NoItem)
  /\ UNCHANGED token

\* Any other status of the framework, and every call elsewhere.
Fail(p) ==
  /\ call[p] \in Open
  /\ Step(p, "failed", item)
  /\ UNCHANGED token

Call(p) == Begin(p) \/ Update(p) \/ Add(p) \/ Get(p) \/ Delete(p) \/ Fail(p)

Next == \E p \in Processes : Call(p)

Spec == Init /\ [][Next]_vars

-----------------------------------------------------------------------------

\* Every answer is explained by what the item was during the call, although a
\* set is not atomic: a token that was set or read was there, a token that is
\* missing was not, and a set fails as a duplicate only behind another one that
\* began the same item.
AnswersExplained ==
  \A p \in Processes :
    /\ call[p] = "set" => token[p] \in held[p]
    /\ call[p] = "read" => token[p] \in {Trimmed(t) : t \in held[p] \ {NoItem}}
    /\ call[p] \in {"not found", "deleted"} => NoItem \in held[p]
    /\ call[p] = "duplicate" => NoItem \in held[p] /\ held[p] # {NoItem}

\* A token is replaced in place: nobody who reads beside a set finds no token,
\* and a failed set leaves the old one.
NeverAGap ==
  [][item # NoItem /\ item' = NoItem =>
       \E p \in Processes : call[p] = "delete" /\ call'[p] = "deleted"]_vars

=============================================================================
