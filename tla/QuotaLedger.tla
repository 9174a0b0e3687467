---------------------------- MODULE QuotaLedger ----------------------------
(***************************************************************************)
(* The account of a role's uses, as the documents promise it to whoever    *)
(* exports one: a number of uses is granted, each use is charged before it *)
(* is made, a charge may come to nothing, and another grant opens the      *)
(* account again.  No storage, no requests and no chains: RoleLedger shows *)
(* which of the engine's steps are steps of the account.                   *)
(***************************************************************************)
EXTENDS Integers, TLAPS

CONSTANT Quotas  \* the numbers of uses that are granted

VARIABLES
    granted,  \* the uses granted; 0 for any number, which is not accounted
    left,     \* granted and not charged
    pending,  \* charged and not made yet
    made      \* made

account == <<granted, left, pending, made>>

Init == granted = 0 /\ left = 0 /\ pending = 0 /\ made = 0

Grant ==
    /\ granted' \in Quotas \cup {0}
    /\ left' = granted'
    /\ pending' = 0 /\ made' = 0

Charge ==
    /\ left > 0
    /\ left' = left - 1
    /\ pending' = pending + 1
    /\ UNCHANGED <<granted, made>>

Spend ==
    /\ pending > 0
    /\ pending' = pending - 1
    /\ made' = made + 1
    /\ UNCHANGED <<granted, left>>

\* A request fails after its charge, or several are lost with the process.
Forfeit ==
    /\ pending > 0
    /\ pending' \in 0..(pending - 1)
    /\ UNCHANGED <<granted, left, made>>

Next == Grant \/ Charge \/ Spend \/ Forfeit

Spec == Init /\ [][Next]_account

\* Uses made, charged and left are never more than were granted, so that the
\* uses made are not.
AccountBalanced ==
    /\ granted \in Nat /\ left \in Nat /\ pending \in Nat /\ made \in Nat
    /\ made + pending + left <= granted

\* The sums of an account just opened, and of one with a charge forfeited.
LEMMA Opened ==
    \A g, l, p, m \in Nat : l = g /\ p = 0 /\ m = 0 => m + p + l <= g
OBVIOUS

LEMMA Forfeited ==
    \A g, l, p, q, m \in Nat : m + p + l <= g /\ q <= p => m + q + l <= g
OBVIOUS

\* However uses are charged, made and forfeited, and grants follow each other,
\* the account balances: what an engine whose steps are those of the account
\* promises to the exporting administrator.
THEOREM Balanced ==
    ASSUME Quotas \subseteq Nat
    PROVE  Spec => []AccountBalanced
<1>1. Init => AccountBalanced
  BY DEF Init, AccountBalanced
<1>2. AccountBalanced /\ [Next]_account => AccountBalanced'
  <2> SUFFICES ASSUME AccountBalanced, [Next]_account
               PROVE  AccountBalanced'
    OBVIOUS
  <2>1. CASE Grant
    <3>1. granted' \in Nat
      BY <2>1 DEF Grant
    <3>2. left' = granted' /\ pending' = 0 /\ made' = 0
      BY <2>1 DEF Grant
    <3>3. granted' \in Nat /\ left' \in Nat /\ pending' \in Nat /\ made' \in Nat
      BY <3>1, <3>2
    <3>4. made' + pending' + left' <= granted'
      BY <3>2, <3>3, Opened
    <3>5. QED
      BY <3>3, <3>4 DEF AccountBalanced
  <2>2. CASE Charge
    BY <2>2 DEF Charge, AccountBalanced
  <2>3. CASE Spend
    BY <2>3 DEF Spend, AccountBalanced
  <2>4. CASE Forfeit
    <3>1. granted \in Nat /\ left \in Nat /\ pending \in Nat /\ made \in Nat
      BY DEF AccountBalanced
    <3>2. pending' \in Nat /\ pending' <= pending
      BY <2>4, <3>1 DEF Forfeit
    <3>3. granted' = granted /\ left' = left /\ made' = made
      BY <2>4 DEF Forfeit
    <3>4. made + pending + left <= granted
      BY DEF AccountBalanced
    <3>5. made' + pending' + left' <= granted'
      BY <3>1, <3>2, <3>3, <3>4, Forfeited
    <3>6. QED
      BY <3>1, <3>2, <3>3, <3>5 DEF AccountBalanced
  <2>5. CASE UNCHANGED account
    BY <2>5 DEF account, AccountBalanced
  <2>6. QED
    BY <2>1, <2>2, <2>3, <2>4, <2>5 DEF Next
<1>3. QED
  BY <1>1, <1>2, PTL DEF Spec
=============================================================================
