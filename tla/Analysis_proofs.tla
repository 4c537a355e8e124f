---------------------------- MODULE Analysis_proofs ----------------------------
(***************************************************************************)
(* Proofs about LogAnalysis and FieldAnalysis, for logs of any length and  *)
(* any transactions, messages, blocks, fields and names of files.  An      *)
(* analysis walks over what it is given (FoldLeft); what is known after k  *)
(* elements holds after k + 1, so FoldLemmas says what it knows at the     *)
(* end. That nothing depends on order is shown by what the candidates say, *)
(* wherever they are, and of the phases of a row by their ranks; how the   *)
(* values of a message settle, by what is said in the best way when one    *)
(* candidate is added.                                                     *)
(***************************************************************************)
EXTENDS FieldAnalysis, FiniteSetTheorems, TLAPS

SharedFold == INSTANCE FoldLemmas WITH Op <- Share, Base <- NoneShared
RowFold == INSTANCE FoldLemmas WITH Op <- Added, Base <- NoBlocksYet

\* The least of some numbers, by the definition Min has.
LEMMA MinIs ==
    ASSUME NEW S, S \subseteq Nat, S # {}
    PROVE  Min(S) \in S /\ \A y \in S : Min(S) <= y
<1>1. PICK n \in S : \A y \in S : n <= y BY SharedFold!LeastNatural
<1> QED BY <1>1 DEF Min

-----------------------------------------------------------------------------
(* The log *)

\* A uid changes nothing that is read of a transaction ...
LEMMA TransactionWithUid ==
    ASSUME NEW t, NEW n, IsTransaction(t)
    PROVE  IsTransaction(WithUid(t, n))
<1>1. \A key \in DOMAIN t \ {"uid"} : WithUid(t, n)[key] = t[key] /\ key \in DOMAIN WithUid(t, n)
  BY DEF WithUid
<1> QED BY <1>1 DEF IsTransaction

\* ... nor of a block.
LEMMA BlockWithUid ==
    ASSUME NEW t, NEW n, IsBlock(t)
    PROVE  IsBlock(WithUid(t, n))
<1>1. \A key \in DOMAIN t \ {"uid"} : WithUid(t, n)[key] = t[key] /\ key \in DOMAIN WithUid(t, n)
  BY DEF WithUid
<1> QED BY <1>1 DEF IsBlock

\* An empty log is typed.
LEMMA InitType == Init => TypeOK
BY EntriesAssumption DEF Init, TypeOK, Transactions, Blocks, ToSet

\* An entry more leaves the log typed.
LEMMA GrowType ==
    ASSUME TypeOK, [Grow]_vars PROVE TypeOK'
<1>1. CASE UNCHANGED vars BY <1>1 DEF vars, TypeOK, Transactions, Blocks
<1>2. CASE Grow
  <2> DEFINE n == Len(log) + 1
  <2>1. PICK t \in EntriesOf[family] : log' = Append(log, WithUid(t, n)) BY <1>2 DEF Grow
  <2>2. family' = family /\ family \in Families /\ Len(log) < LimitOf[family] BY <1>2 DEF Grow, TypeOK
  <2> DEFINE u == WithUid(t, n)
  <2>3. u.uid = n BY <2>2, EntriesAssumption DEF WithUid
  <2>4. (family \in OfTransactions => IsTransaction(u)) /\ (family = "row" => IsBlock(u))
    BY <2>2, EntriesAssumption, TransactionWithUid, BlockWithUid
  <2> HIDE DEF u
  <2>5. log \in Seq(ToSet(log)) BY DEF TypeOK
  <2>6. Len(log) \in Nat /\ DOMAIN log = 1..Len(log) BY <2>5
  <2>7. log' \in Seq(ToSet(log) \union {u}) /\ Len(log') = n /\ DOMAIN log' = 1..n
        /\ log'[n] = u /\ \A i \in 1..Len(log) : log'[i] = log[i]
    BY <2>1, <2>5 DEF u
  <2>8. ToSet(log') = ToSet(log) \union {u} BY <2>6, <2>7 DEF ToSet
  <2>9. \A i \in DOMAIN log' : log'[i].uid = i BY <2>3, <2>6, <2>7 DEF TypeOK
  <2>10. \A b \in ToSet(log') : (family \in OfTransactions => IsTransaction(b)) /\ (family = "row" => IsBlock(b))
    BY <2>4, <2>8 DEF TypeOK, Transactions, Blocks
  <2>11. LimitOf[family] \in Nat BY <2>2, EntriesAssumption
  <2>12. ToSet(<<>>) = {} BY DEF ToSet
  <2> QED BY <2>2, <2>6, <2>7, <2>8, <2>9, <2>10, <2>11, <2>12 DEF TypeOK, Transactions, Blocks
<1> QED BY <1>1, <1>2

(***************************************************************************)
(* Whatever transactions and blocks the audits have, and however many, a   *)
(* log that grows by one of them at a time has what the checks and the     *)
(* rows read of it (Transaction, log_core.py:145-169): TypeOK is           *)
(* inductive.                                                              *)
(***************************************************************************)
THEOREM LogIsTyped == Spec => []TypeOK
BY InitType, GrowType, PTL DEF Spec

-----------------------------------------------------------------------------
(* Originals and what is found of a reversal *)

\* The originals of check_original_transactions are the requests of
\* transactions that are no reversals (67-90).
LEMMA OriginalIs ==
    ASSUME NEW ts, NEW o
    PROVE  o \in Originals(ts) <=>
               \E i \in DOMAIN ts : ~ts[i].exempt /\ \E j \in DOMAIN ts[i].messages :
                   IsRequest(ts[i].messages[j]) /\ o = Original(ts, i, j)
BY DEF Originals

\* What is found of a reversal is what is found of one of its requests.
LEMMA ProblemIs ==
    ASSUME NEW ts, NEW t, NEW useRrn, NEW problem
    PROVE  problem \in OriginalProblems(ts, t, useRrn) <=>
               \E m \in Requests(t) : problem \in FindingsOf(ts, t.uid, m, useRrn)
BY DEF OriginalProblems

AreTransactions(ts) == ts \in Seq(ToSet(ts)) /\ \A t \in ToSet(ts) : IsTransaction(t)

\* An original is known by its place.
LEMMA OriginalsHavePlaces ==
    ASSUME NEW ts, AreTransactions(ts), NEW o \in Originals(ts), NEW p \in Originals(ts)
    PROVE  o.at \in Nat \X Nat /\ (o.at = p.at => o = p)
<1>1. PICK i \in DOMAIN ts : \E j \in DOMAIN ts[i].messages : o = Original(ts, i, j) BY OriginalIs
<1>2. PICK j \in DOMAIN ts[i].messages : o = Original(ts, i, j) BY <1>1
<1>3. PICK k \in DOMAIN ts : \E l \in DOMAIN ts[k].messages : p = Original(ts, k, l) BY OriginalIs
<1>4. PICK l \in DOMAIN ts[k].messages : p = Original(ts, k, l) BY <1>3
<1>5. i \in Nat BY DEF AreTransactions
<1>6. j \in Nat
  <2>1. ts[i].messages \in Seq(ToSet(ts[i].messages)) BY DEF AreTransactions, IsTransaction, ToSet
  <2> QED BY <2>1
<1>7. o.at = <<i, j>> /\ p.at = <<k, l>> BY <1>2, <1>4 DEF Original
<1>8. o.at = p.at => i = k /\ j = l BY <1>7
<1> QED BY <1>2, <1>4, <1>5, <1>6, <1>7, <1>8

\* The first candidate is one of them, if there is one.
LEMMA FirstIsOne ==
    ASSUME NEW ts, AreTransactions(ts), NEW candidates, candidates \subseteq Originals(ts), candidates # {}
    PROVE  First(candidates) \in candidates
<1>1. \A o, p \in candidates : o.at \in Nat \X Nat /\ (o.at = p.at => o = p) BY OriginalsHavePlaces
<1> DEFINE rows == {o.at[1] : o \in candidates}
<1>2. rows \subseteq Nat /\ rows # {} BY <1>1
<1>3. PICK i \in rows : \A k \in rows : i <= k BY <1>2, SharedFold!LeastNatural
<1> DEFINE places == {o.at[2] : o \in {p \in candidates : p.at[1] = i}}
<1>4. places \subseteq Nat /\ places # {} BY <1>1, <1>3
<1>5. PICK j \in places : \A k \in places : j <= k BY <1>4, SharedFold!LeastNatural
<1>6. PICK o \in candidates : o.at[1] = i /\ o.at[2] = j BY <1>5
<1>7. ASSUME NEW p \in candidates \ {o} PROVE Sooner(o, p)
  <2>1. p.at # o.at BY <1>1
  <2>2. p.at[1] \in Nat /\ p.at[2] \in Nat /\ o.at[1] \in Nat /\ o.at[2] \in Nat BY <1>1
  <2>3. i <= p.at[1] /\ (p.at[1] = i => j <= p.at[2]) BY <1>3, <1>5
  <2>4. p.at[1] # o.at[1] \/ p.at[2] # o.at[2]
    <3>1. p.at = <<p.at[1], p.at[2]>> /\ o.at = <<o.at[1], o.at[2]>> BY <1>1
    <3> QED BY <2>1, <3>1
  <2> QED BY <1>6, <2>2, <2>3, <2>4 DEF Sooner
<1> QED BY <1>6, <1>7 DEF First

\* What makes a mismatch of a request and the original it refers to.
Mismatched(m, o, useRrn) ==
    \/ \E key \in {"tid", "mid", "currency"} : Different(m.v, o.v, key)
    \/ MtiDiffers(m, o) /\ ~NbgMapping(m, o)
    \/ useRrn /\ RrnDiffers(m, o)

\* A mismatch is a matter of the fields alone.
LEMMA MismatchOfFields ==
    ASSUME NEW m, NEW o, NEW p, NEW useRrn, o.v = p.v
    PROVE  Mismatched(m, o, useRrn) <=> Mismatched(m, p, useRrn)
BY DEF Mismatched, Different, MtiDiffers, NbgMapping, RrnDiffers

\* Candidates of which each is another transaction or has other fields.
Several(candidates) == \E a, b \in candidates : a.uid # b.uid \/ a.v # b.v

\* {(o.uid, o.v)} has two members when two candidates differ (110).
LEMMA SeveralIs ==
    ASSUME NEW candidates
    PROVE  (\E a, b \in {<<c.uid, c.v>> : c \in candidates} : a # b) <=> Several(candidates)
<1> DEFINE unique == {<<c.uid, c.v>> : c \in candidates}
<1>1. ASSUME NEW a \in unique, NEW b \in unique, a # b PROVE Several(candidates)
  <2>1. PICK c \in candidates : a = <<c.uid, c.v>> OBVIOUS
  <2>2. PICK d \in candidates : b = <<d.uid, d.v>> OBVIOUS
  <2>3. c.uid # d.uid \/ c.v # d.v BY <1>1, <2>1, <2>2
  <2> QED BY <2>3 DEF Several
<1>2. ASSUME Several(candidates) PROVE \E a, b \in unique : a # b
  <2>1. PICK c \in candidates, d \in candidates : c.uid # d.uid \/ c.v # d.v BY <1>2 DEF Several
  <2>2. <<c.uid, c.v>> \in unique /\ <<d.uid, d.v>> \in unique OBVIOUS
  <2>3. <<c.uid, c.v>> # <<d.uid, d.v>> BY <2>1
  <2> QED BY <2>2, <2>3
<1> QED BY <1>1, <1>2

\* What is found of a request, by the candidates and the first of them.
Finds(found, m, candidates, o, useRrn) ==
    LET referring == Reference(m.v, useRrn) # <<>>
        one == referring /\ candidates # {} /\ ~Several(candidates)
    IN  /\ "no reference" \in found <=> ~referring
        /\ "not found" \in found <=> referring /\ candidates = {}
        /\ "ambiguous" \in found <=> referring /\ Several(candidates)
        /\ "mismatch" \in found <=> one /\ Mismatched(m, o, useRrn)
        /\ "NBG mapping" \in found <=> one /\ MtiDiffers(m, o) /\ NbgMapping(m, o)
        /\ found \subseteq {"no reference", "not found", "ambiguous", "mismatch", "NBG mapping"}

\* FindingsOf, a request at a time.
LEMMA FindingIs ==
    ASSUME NEW ts, NEW uid, NEW m, NEW useRrn
    PROVE  Finds(FindingsOf(ts, uid, m, useRrn), m, Candidates(ts, uid, m, useRrn),
                 First(Candidates(ts, uid, m, useRrn)), useRrn)
<1> DEFINE found == FindingsOf(ts, uid, m, useRrn)
           candidates == Candidates(ts, uid, m, useRrn)
           o == First(candidates)
           unique == {<<c.uid, c.v>> : c \in candidates}
<1>1. unique = {} <=> candidates = {} OBVIOUS
<1>2. (\E a, b \in unique : a # b) <=> Several(candidates) BY SeveralIs
<1>3. Several(candidates) => candidates # {} BY DEF Several
<1>4. Reference(m.v, useRrn) = <<>> => found = {"no reference"} BY DEF FindingsOf
<1>5. Reference(m.v, useRrn) # <<>> /\ unique = {} => found = {"not found"} BY DEF FindingsOf
<1>6. Reference(m.v, useRrn) # <<>> /\ unique # {} /\ (\E a, b \in unique : a # b) => found = {"ambiguous"}
  BY DEF FindingsOf
<1>7. Reference(m.v, useRrn) # <<>> /\ unique # {} /\ ~(\E a, b \in unique : a # b) =>
        found = (IF Mismatched(m, o, useRrn) THEN {"mismatch"} ELSE {})
                \union (IF MtiDiffers(m, o) /\ NbgMapping(m, o) THEN {"NBG mapping"} ELSE {})
  BY DEF FindingsOf, Mismatched
<1> HIDE DEF found, candidates, o, unique
<1> QED BY <1>1, <1>2, <1>3, <1>4, <1>5, <1>6, <1>7 DEF Finds, found, candidates, o

\* When a request has several originals ...
LEMMA AmbiguityIs ==
    ASSUME NEW ts, NEW uid, NEW m, NEW useRrn
    PROVE  "ambiguous" \in FindingsOf(ts, uid, m, useRrn) <=>
               Reference(m.v, useRrn) # <<>> /\ Several(Candidates(ts, uid, m, useRrn))
BY FindingIs DEF Finds

\* ... and when it differs from the one it has.
LEMMA MismatchIs ==
    ASSUME NEW ts, NEW uid, NEW m, NEW useRrn
    PROVE  "mismatch" \in FindingsOf(ts, uid, m, useRrn) <=>
               /\ Reference(m.v, useRrn) # <<>> /\ Candidates(ts, uid, m, useRrn) # {}
               /\ ~Several(Candidates(ts, uid, m, useRrn))
               /\ Mismatched(m, First(Candidates(ts, uid, m, useRrn)), useRrn)
BY FindingIs DEF Finds

(***************************************************************************)
(* "An absent or ambiguous original is a warning, never proof of a bad     *)
(* reversal" (diagnostic_common.py:64): for any transactions, what         *)
(* check_original_transactions reports as an error stands on exactly one   *)
(* other transaction that a request of the reversal refers to.             *)
(***************************************************************************)
THEOREM ErrorsAreSound == TypeOK => ErrorsAreProved
<1> SUFFICES ASSUME TypeOK, NEW t \in Reversals, NEW useRrn \in BOOLEAN, NEW m \in Requests(t),
                    "mismatch" \in FindingsOf(Transactions, t.uid, m, useRrn)
             PROVE  \E uid \in DOMAIN Transactions : {o.uid : o \in Candidates(Transactions, t.uid, m, useRrn)} = {uid}
  BY ProblemIs DEF ErrorsAreProved, Errors
<1> DEFINE candidates == Candidates(Transactions, t.uid, m, useRrn)
<1>1. candidates # {} /\ \A a, b \in candidates : a.uid = b.uid
  <2>1. candidates # {} /\ ~Several(candidates) BY MismatchIs, AmbiguityIs
  <2> QED BY <2>1 DEF Several
<1>2. PICK o \in candidates : TRUE BY <1>1
<1>3. o \in Originals(Transactions) BY <1>2 DEF Candidates
<1>4. PICK i \in DOMAIN Transactions : \E j \in DOMAIN Transactions[i].messages : o = Original(Transactions, i, j)
  BY <1>3, OriginalIs
<1>5. o.uid = Transactions[i].uid BY <1>4 DEF Original
<1>6. Transactions[i].uid = i BY DEF TypeOK, Transactions
<1> QED BY <1>1, <1>2, <1>4, <1>5, <1>6

\* Transactions of a typed log have uids of their own.
LEMMA TransactionsTyped == TypeOK => AreTransactions(Transactions) /\ \A i \in DOMAIN Transactions : Transactions[i].uid = i
BY DEF TypeOK, AreTransactions, Transactions, ToSet

(***************************************************************************)
(* For any transactions, successful_local_reversal_uids                    *)
(* (transaction_checks.py:65-129) marks a reversal only when all its       *)
(* requests refer to one and the same transaction, which came before it    *)
(* and never went to the network.                                          *)
(***************************************************************************)
THEOREM LocalReversalsAreSound == TypeOK => ReversalsAreLocal
<1> SUFFICES ASSUME TypeOK, NEW t \in ToSet(Transactions), t.uid \in SuccessfulReversals(Transactions)
             PROVE  \E o \in ToSet(Transactions) :
                        /\ ~o.exempt /\ ~o.network
                        /\ o.time # None /\ t.time # None => o.time < t.time
                        /\ \A m \in Requests(t), other \in Originals(Transactions) :
                               Refers(m, other, Reference(m.v, FALSE)) => other.uid = o.uid
  BY DEF ReversalsAreLocal
<1>1. ASSUME NEW a \in ToSet(Transactions), NEW b \in ToSet(Transactions), a.uid = b.uid PROVE a = b
  <2>1. PICK i \in DOMAIN Transactions : a = Transactions[i] BY DEF ToSet
  <2>2. PICK j \in DOMAIN Transactions : b = Transactions[j] BY DEF ToSet
  <2>3. i = j BY <1>1, <2>1, <2>2, TransactionsTyped
  <2> QED BY <2>1, <2>2, <2>3
<1> DEFINE matched == UNION {Matches(Transactions, m) : m \in Requests(t)}
<1>2. PICK o \in ToSet(Transactions) : matched = {o.uid} /\ ~o.network /\ Precedes(o, t)
  <2>1. PICK r \in ToSet(Transactions) : r.uid = t.uid /\
            \E o \in ToSet(Transactions) :
                UNION {Matches(Transactions, m) : m \in Requests(r)} = {o.uid} /\ ~o.network /\ Precedes(o, r)
    BY DEF SuccessfulReversals
  <2>2. r = t BY <1>1, <2>1
  <2> QED BY <2>1, <2>2
<1>3. ASSUME NEW m \in Requests(t), NEW other \in Originals(Transactions), Refers(m, other, Reference(m.v, FALSE))
      PROVE  other.uid = o.uid
  <2>1. other.uid \in Matches(Transactions, m) BY <1>3 DEF Matches
  <2> QED BY <1>2, <2>1
<1>4. ~o.exempt
  <2>1. PICK m \in Requests(t) : o.uid \in Matches(Transactions, m) BY <1>2
  <2>2. PICK c \in Originals(Transactions) : c.uid = o.uid BY <2>1 DEF Matches
  <2>3. PICK i \in DOMAIN Transactions : ~Transactions[i].exempt /\ c.uid = Transactions[i].uid
    BY OriginalIs DEF Original
  <2>4. Transactions[i] = o BY <1>1, <2>2, <2>3 DEF ToSet
  <2> QED BY <2>3, <2>4
<1> QED BY <1>2, <1>3, <1>4 DEF Precedes

-----------------------------------------------------------------------------
(* Transactions with the same RRN *)

HasRrn(ts, i, r) == ~ts[i].exempt /\ r \in RrnsOf(ts[i])
HaveOneRrn(ts, i, j) == i # j /\ \E r : HasRrn(ts, i, r) /\ HasRrn(ts, j, r)

\* What is known after the first k transactions: one of them that has each RRN,
\* and those that have one in common.
SharedBy(found, ts, k) ==
    /\ \A r : r \in DOMAIN found.owners <=> \E i \in 1..k : HasRrn(ts, i, r)
    /\ \A r \in DOMAIN found.owners : \E i \in 1..k : HasRrn(ts, i, r) /\ found.owners[r] = ts[i].uid
    /\ \A uid : uid \in found.shared <=> \E i, j \in 1..k : HaveOneRrn(ts, i, j) /\ uid = ts[i].uid

UidsDiffer(ts) == \A i, j \in DOMAIN ts : ts[i].uid = ts[j].uid => i = j

\* One transaction more.
LEMMA ShareOne ==
    ASSUME NEW ts, UidsDiffer(ts), NEW k \in Nat, 1..(k + 1) \subseteq DOMAIN ts,
           NEW found, SharedBy(found, ts, k)
    PROVE  SharedBy(Share(found, ts[k + 1]), ts, k + 1)
<1> DEFINE t == ts[k + 1]
           after == Share(found, t)
           n == k + 1
<1>1. \A i : i \in 1..n <=> i \in 1..k \/ i = n OBVIOUS
<1>2. CASE t.exempt
  <2>1. after = found BY <1>2 DEF Share
  <2>2. \A r : ~HasRrn(ts, n, r) BY <1>2 DEF HasRrn
  <2>3. \A i, j \in 1..n : HaveOneRrn(ts, i, j) => i \in 1..k /\ j \in 1..k BY <1>1, <2>2 DEF HaveOneRrn
  <2> HIDE DEF after, n
  <2> QED BY <1>1, <2>1, <2>2, <2>3 DEF SharedBy, after, n
<1>3. CASE ~t.exempt
  <2> DEFINE known == RrnsOf(t) \intersect DOMAIN found.owners
  <2>1. \A r : HasRrn(ts, n, r) <=> r \in RrnsOf(t) BY <1>3 DEF HasRrn
  <2>2. /\ DOMAIN after.owners = DOMAIN found.owners \union RrnsOf(t)
        /\ \A r \in DOMAIN after.owners :
               after.owners[r] = IF r \in DOMAIN found.owners THEN found.owners[r] ELSE t.uid
        /\ after.shared = found.shared \union UNION {{found.owners[r], t.uid} : r \in {q \in known : found.owners[q] # t.uid}}
    BY <1>3 DEF Share
  <2>3. \A r : r \in DOMAIN after.owners <=> \E i \in 1..n : HasRrn(ts, i, r)
    BY <1>1, <2>1, <2>2 DEF SharedBy
  <2>4. ASSUME NEW r \in DOMAIN after.owners
        PROVE  \E i \in 1..n : HasRrn(ts, i, r) /\ after.owners[r] = ts[i].uid
    <3>1. CASE r \in DOMAIN found.owners
      <4>1. PICK i \in 1..k : HasRrn(ts, i, r) /\ found.owners[r] = ts[i].uid BY <3>1 DEF SharedBy
      <4> QED BY <1>1, <2>2, <3>1, <4>1
    <3>2. CASE r \notin DOMAIN found.owners
      <4>1. HasRrn(ts, n, r) /\ after.owners[r] = ts[n].uid BY <2>1, <2>2, <3>2
      <4> QED BY <1>1, <4>1
    <3> QED BY <3>1, <3>2
  <2>5. ASSUME NEW r \in known
        PROVE  \E i \in 1..k : HaveOneRrn(ts, i, n) /\ HaveOneRrn(ts, n, i) /\ found.owners[r] = ts[i].uid
                               /\ HasRrn(ts, i, r) /\ found.owners[r] # t.uid
    <3>1. PICK i \in 1..k : HasRrn(ts, i, r) /\ found.owners[r] = ts[i].uid BY <2>5 DEF SharedBy
    <3>2. HasRrn(ts, n, r) /\ i # n BY <2>1, <2>5, <3>1
    <3>3. ts[i].uid # ts[n].uid BY <1>1, <3>2 DEF UidsDiffer
    <3> QED BY <3>1, <3>2, <3>3 DEF HaveOneRrn
  <2>6. ASSUME NEW uid \in after.shared
        PROVE  \E i, j \in 1..n : HaveOneRrn(ts, i, j) /\ uid = ts[i].uid
    <3>1. CASE uid \in found.shared BY <1>1, <3>1 DEF SharedBy
    <3>2. CASE uid \notin found.shared
      <4>1. PICK r \in known : uid \in {found.owners[r], t.uid} BY <2>2, <3>2
      <4> QED BY <1>1, <2>5, <4>1
    <3> QED BY <3>1, <3>2
  <2>7. ASSUME NEW i \in 1..n, NEW j \in 1..n, HaveOneRrn(ts, i, j)
        PROVE  ts[i].uid \in after.shared
    <3>1. PICK r : HasRrn(ts, i, r) /\ HasRrn(ts, j, r) BY <2>7 DEF HaveOneRrn
    <3>2. i # j BY <2>7 DEF HaveOneRrn
    <3>3. CASE i \in 1..k /\ j \in 1..k BY <2>2, <2>7, <3>3 DEF SharedBy
    <3>4. CASE i = n \/ j = n
      <4>1. r \in RrnsOf(t) BY <2>1, <3>1, <3>4
      <4>2. r \in DOMAIN found.owners BY <1>1, <3>1, <3>2, <3>4 DEF SharedBy
      <4>3. PICK o \in 1..k : /\ found.owners[r] = ts[o].uid /\ found.owners[r] # t.uid /\ HasRrn(ts, o, r)
        BY <2>5, <4>1, <4>2
      <4>4. {ts[o].uid, t.uid} \subseteq after.shared BY <2>2, <4>1, <4>2, <4>3
      <4>5. CASE i = n \/ i = o BY <4>4, <4>5
      <4>6. CASE i # n /\ i # o
        <5>1. HaveOneRrn(ts, i, o) /\ i \in 1..k BY <1>1, <3>1, <4>3, <4>6 DEF HaveOneRrn
        <5>2. ts[i].uid \in found.shared BY <5>1 DEF SharedBy
        <5> QED BY <2>2, <5>2
      <4> QED BY <4>5, <4>6
    <3> QED BY <1>1, <3>3, <3>4
  <2>8. \A uid : uid \in after.shared <=> \E i, j \in 1..n : HaveOneRrn(ts, i, j) /\ uid = ts[i].uid
    BY <2>6, <2>7
  <2> HIDE DEF after
  <2> QED BY <2>3, <2>4, <2>8 DEF SharedBy, after
<1> QED BY <1>2, <1>3

\* Of some transactions those that have an RRN in common with another.
Sharing(transactions) ==
    {t.uid : t \in {s \in transactions : ~s.exempt /\ \E o \in transactions :
                        o.uid # s.uid /\ ~o.exempt /\ RrnsOf(o) \intersect RrnsOf(s) # {}}}

\* For transactions of any number: the fold over them finds those that share an
\* RRN.
LEMMA SharedIs ==
    ASSUME NEW S, NEW ts \in Seq(S), UidsDiffer(ts)
    PROVE  SharedRrns(ts) = Sharing(ToSet(ts))
<1>1. FoldLeft(Share, NoneShared, ts) = SharedFold!FoldLeft(Share, NoneShared, ts)
  BY DEF FoldLeft, SharedFold!FoldLeft, MapThenFoldSet, SharedFold!MapThenFoldSet, Max, SharedFold!Max
<1>2. PICK g : SharedFold!IsSteps(g, ts) /\ FoldLeft(Share, NoneShared, ts) = g[Len(ts)]
  BY <1>1, SharedFold!FoldSteps
<1> DEFINE T == {k \in Nat : k <= Len(ts) => SharedBy(g[k], ts, k)}
<1>3. 0 \in T
  <2>1. g[0] = NoneShared BY <1>2 DEF SharedFold!IsSteps
  <2>2. g[0].shared = {} /\ DOMAIN g[0].owners = {} BY <2>1 DEF NoneShared
  <2>3. SharedBy(g[0], ts, 0) BY <2>2 DEF SharedBy
  <2> QED BY <2>3
<1>4. ASSUME NEW k \in T PROVE k + 1 \in T
  <2> SUFFICES ASSUME k + 1 <= Len(ts) PROVE SharedBy(g[k + 1], ts, k + 1) OBVIOUS
  <2>1. k \in 0..(Len(ts) - 1) /\ SharedBy(g[k], ts, k) OBVIOUS
  <2>2. g[k + 1] = Share(g[k], ts[k + 1]) BY <1>2, <2>1 DEF SharedFold!IsSteps
  <2>3. 1..(k + 1) \subseteq DOMAIN ts OBVIOUS
  <2> QED BY <2>1, <2>2, <2>3, ShareOne
<1>5. SharedBy(g[Len(ts)], ts, Len(ts))
  <2> HIDE DEF T
  <2>1. T \subseteq Nat BY DEF T
  <2>2. T = Nat BY <1>3, <1>4, <2>1, SharedFold!SetInduction
  <2> QED BY <2>2 DEF T
<1>6. \A uid : uid \in SharedRrns(ts) <=> \E i, j \in DOMAIN ts : HaveOneRrn(ts, i, j) /\ uid = ts[i].uid
  BY <1>2, <1>5 DEF SharedBy, SharedRrns
<1>7. ASSUME NEW i \in DOMAIN ts, NEW j \in DOMAIN ts, HaveOneRrn(ts, i, j)
      PROVE  ts[i].uid \in Sharing(ToSet(ts))
  <2>1. ts[i] \in ToSet(ts) /\ ts[j] \in ToSet(ts) BY DEF ToSet
  <2>2. ts[i].uid # ts[j].uid BY <1>7 DEF UidsDiffer, HaveOneRrn
  <2>3. ~ts[i].exempt /\ ~ts[j].exempt /\ RrnsOf(ts[j]) \intersect RrnsOf(ts[i]) # {}
    BY <1>7 DEF HaveOneRrn, HasRrn
  <2> QED BY <2>1, <2>2, <2>3 DEF Sharing
<1>8. ASSUME NEW uid \in Sharing(ToSet(ts))
      PROVE  \E i, j \in DOMAIN ts : HaveOneRrn(ts, i, j) /\ uid = ts[i].uid
  <2>1. PICK s \in ToSet(ts), o \in ToSet(ts) :
            /\ uid = s.uid /\ ~s.exempt /\ o.uid # s.uid /\ ~o.exempt /\ RrnsOf(o) \intersect RrnsOf(s) # {}
    BY <1>8 DEF Sharing
  <2>2. PICK i \in DOMAIN ts : s = ts[i] BY DEF ToSet
  <2>3. PICK j \in DOMAIN ts : o = ts[j] BY DEF ToSet
  <2>4. PICK r : r \in RrnsOf(o) /\ r \in RrnsOf(s) BY <2>1
  <2>5. i # j BY <2>1, <2>2, <2>3
  <2>6. HasRrn(ts, i, r) /\ HasRrn(ts, j, r) BY <2>1, <2>2, <2>3, <2>4 DEF HasRrn
  <2> QED BY <2>1, <2>2, <2>5, <2>6 DEF HaveOneRrn
<1>9. \A uid : uid \in SharedRrns(ts) <=> uid \in Sharing(ToSet(ts)) BY <1>6, <1>7, <1>8
<1> QED BY <1>9

\* transactions_with_shared_rrns (148-163) marks exactly those.
LEMMA SharingIsExact == TypeOK => SharedExactly
<1> SUFFICES ASSUME TypeOK PROVE SharedExactly OBVIOUS
<1>1. Transactions \in Seq(ToSet(Transactions)) /\ UidsDiffer(Transactions)
  BY TransactionsTyped DEF AreTransactions, UidsDiffer
<1> QED BY <1>1, SharedIs DEF SharedExactly, Sharing

(***************************************************************************)
(* AnalysisInv: for any transactions, of any number, they are related to   *)
(* one another - by a shared RRN, or as a completed local reversal and its *)
(* original - exactly as their messages say.                               *)
(***************************************************************************)
THEOREM AnalysisInvariant == Spec => []AnalysisInv
<1>1. TypeOK => AnalysisInv BY SharingIsExact, LocalReversalsAreSound DEF AnalysisInv
<1> QED BY <1>1, LogIsTyped, PTL

-----------------------------------------------------------------------------
(* A log that grows *)

\* Whoever was a candidate is one in a longer log.
LEMMA CandidatesGrow ==
    ASSUME NEW ts, NEW us, DOMAIN ts \subseteq DOMAIN us, \A i \in DOMAIN ts : us[i] = ts[i],
           NEW uid, NEW m, NEW useRrn
    PROVE  Candidates(ts, uid, m, useRrn) \subseteq Candidates(us, uid, m, useRrn)
<1>1. ASSUME NEW o \in Originals(ts) PROVE o \in Originals(us)
  <2>1. PICK i \in DOMAIN ts : ~ts[i].exempt /\ \E j \in DOMAIN ts[i].messages :
                   IsRequest(ts[i].messages[j]) /\ o = Original(ts, i, j)
    BY OriginalIs
  <2>2. \A j : Original(us, i, j) = Original(ts, i, j) BY DEF Original
  <2> QED BY <2>1, <2>2, OriginalIs
<1> QED BY <1>1 DEF Candidates

\* What leaves a doubt leaves one in a longer log.
LEMMA DoubtStays ==
    ASSUME NEW ts, NEW us, AreTransactions(ts), AreTransactions(us),
           DOMAIN ts \subseteq DOMAIN us, \A i \in DOMAIN ts : us[i] = ts[i],
           NEW uid, NEW m, NEW useRrn
    PROVE  /\ "ambiguous" \in FindingsOf(ts, uid, m, useRrn) => "ambiguous" \in FindingsOf(us, uid, m, useRrn)
           /\ "mismatch" \in FindingsOf(ts, uid, m, useRrn) =>
                  {"mismatch", "ambiguous"} \intersect FindingsOf(us, uid, m, useRrn) # {}
<1> DEFINE before == Candidates(ts, uid, m, useRrn)
           after == Candidates(us, uid, m, useRrn)
<1>1. before \subseteq after BY CandidatesGrow
<1>2. before \subseteq Originals(ts) /\ after \subseteq Originals(us) BY DEF Candidates
<1>3. Several(before) => Several(after) BY <1>1 DEF Several
<1>4. ASSUME "ambiguous" \in FindingsOf(ts, uid, m, useRrn) PROVE "ambiguous" \in FindingsOf(us, uid, m, useRrn)
  <2>1. Reference(m.v, useRrn) # <<>> /\ Several(before) BY <1>4, MismatchIs, AmbiguityIs
  <2> QED BY <1>3, <2>1, MismatchIs, AmbiguityIs
<1>5. ASSUME "mismatch" \in FindingsOf(ts, uid, m, useRrn), ~Several(after)
      PROVE  "mismatch" \in FindingsOf(us, uid, m, useRrn)
  <2>1. /\ Reference(m.v, useRrn) # <<>> /\ before # {}
        /\ Mismatched(m, First(before), useRrn)
    BY <1>5, MismatchIs, AmbiguityIs
  <2>2. First(before) \in after /\ First(after) \in after BY <1>1, <1>2, <2>1, FirstIsOne
  <2>3. First(before).v = First(after).v BY <1>5, <2>2 DEF Several
  <2>4. Mismatched(m, First(after), useRrn) BY <2>1, <2>3, MismatchOfFields
  <2> QED BY <1>5, <2>1, <2>2, <2>4, MismatchIs, AmbiguityIs
<1>6. ASSUME "mismatch" \in FindingsOf(ts, uid, m, useRrn), Several(after)
      PROVE  "ambiguous" \in FindingsOf(us, uid, m, useRrn)
  <2>1. Reference(m.v, useRrn) # <<>> BY <1>6, MismatchIs, AmbiguityIs
  <2> QED BY <1>6, <2>1, MismatchIs, AmbiguityIs
<1> QED BY <1>4, <1>5, <1>6

\* The transactions after a step.
LEMMA TypedLater == TypeOK' => AreTransactions(Transactions')
BY DEF TypeOK, AreTransactions, Transactions, ToSet

(***************************************************************************)
(* FindingsStay: for any log and any transaction appended to it, a         *)
(* reversal that differed from its original does not become right - its    *)
(* original at most becomes one of several - and an original that is one   *)
(* of several stays so (check_original_transactions, 108-132).             *)
(***************************************************************************)
THEOREM FindingsRemain == Spec => FindingsStay
<1>1. ASSUME TypeOK, TypeOK', Grow, NEW t \in Reversals, NEW useRrn \in BOOLEAN
      PROVE  /\ Doubted(Transactions, t, useRrn) # {} => Doubted(Transactions', t, useRrn) # {}
             /\ "ambiguous" \in OriginalProblems(Transactions, t, useRrn) =>
                    "ambiguous" \in OriginalProblems(Transactions', t, useRrn)
  <2> DEFINE ts == Transactions
             us == Transactions'
  <2>1. AreTransactions(ts) /\ AreTransactions(us) BY <1>1, TransactionsTyped, TypedLater DEF ts, us
  <2>2. DOMAIN ts \subseteq DOMAIN us /\ \A i \in DOMAIN ts : us[i] = ts[i]
    <3>1. log \in Seq(ToSet(log)) /\ family' = family /\ \E u : log' = Append(log, u) BY <1>1 DEF Grow, TypeOK
    <3>2. DOMAIN log \subseteq DOMAIN log' /\ \A i \in DOMAIN log : log'[i] = log[i] BY <3>1
    <3> QED BY <3>1, <3>2 DEF Transactions
  <2> HIDE DEF ts, us
  <2>3. ASSUME "ambiguous" \in OriginalProblems(ts, t, useRrn) PROVE "ambiguous" \in OriginalProblems(us, t, useRrn)
    BY <2>1, <2>2, <2>3, DoubtStays, ProblemIs
  <2>4. ASSUME "mismatch" \in OriginalProblems(ts, t, useRrn)
        PROVE  {"mismatch", "ambiguous"} \intersect OriginalProblems(us, t, useRrn) # {}
    <3>1. PICK m \in Requests(t) : "mismatch" \in FindingsOf(ts, t.uid, m, useRrn) BY <2>4, ProblemIs
    <3>2. PICK problem \in {"mismatch", "ambiguous"} : problem \in FindingsOf(us, t.uid, m, useRrn)
      BY <2>1, <2>2, <3>1, DoubtStays
    <3>3. problem \in OriginalProblems(us, t, useRrn) BY <3>2, ProblemIs
    <3> QED BY <3>3
  <2> QED BY <2>3, <2>4 DEF Doubted, ts, us
<1>2. TypeOK /\ TypeOK' /\ [Grow]_vars =>
        [\A t \in Reversals, useRrn \in BOOLEAN :
          /\ Doubted(Transactions, t, useRrn) # {} => Doubted(Transactions', t, useRrn) # {}
          /\ "ambiguous" \in OriginalProblems(Transactions, t, useRrn) => "ambiguous" \in OriginalProblems(Transactions', t, useRrn)]_vars
  BY <1>1
<1> QED BY <1>2, LogIsTyped, PTL DEF Spec, FindingsStay

-----------------------------------------------------------------------------
(* Requests and responses *)

\* A candidate stays one if it has the response's number, whenever the
\* response has one.
LEMMA NarrowKeeps ==
    ASSUME NEW ms, NEW candidates, NEW response, NEW key, NEW i \in candidates,
           response.v[key] # Pairs!None => Pairs!Agree(ms[i], response, key)
    PROVE  i \in Pairs!Narrow(ms, candidates, response, key)
BY DEF Pairs!Narrow, Pairs!Agree, Pairs!Both

\* Narrowing adds no candidate.
LEMMA NarrowIsPart ==
    ASSUME NEW ms, NEW candidates, NEW response, NEW key
    PROVE  Pairs!Narrow(ms, candidates, response, key) \subseteq candidates
BY DEF Pairs!Narrow

\* The first of several candidates without a doubt says what each of them says.
LEMMA FirstSays ==
    ASSUME NEW ms, ms \in Seq(ToSet(ms)), NEW candidates, candidates \subseteq DOMAIN ms,
           ~Pairs!Ambiguous(ms, candidates), NEW i \in candidates
    PROVE  Pairs!First(ms, candidates).v = ms[i].v
<1>1. candidates \subseteq Nat OBVIOUS
<1>2. Min(candidates) \in candidates BY <1>1, MinIs
<1> QED BY <1>2 DEF Pairs!First, Pairs!Ambiguous, Min, Pairs!Min

\* A request that fits a response is among its candidates.
LEMMA FittingIsCandidate ==
    ASSUME NEW ms, ms \in Seq(ToSet(ms)), NEW r, NEW i \in Pairs!Requests(ms, r.process), Pairs!Fits(ms[i], r)
    PROVE  /\ r.protocol = "ISO" => i \in Pairs!IsoCandidates(ms, Pairs!Requests(ms, r.process), r)
           /\ i \in Pairs!SpdhCandidates(ms, Pairs!Requests(ms, r.process), r)
<1> DEFINE requests == Pairs!Requests(ms, r.process)
           byMti == Pairs!RepliedTo(ms, requests, r)
<1>1. \A key \in {"stan", "transmission", "sequence"} : r.v[key] # Pairs!None => Pairs!Agree(ms[i], r, key)
  BY DEF Pairs!Fits, Pairs!Compared, Pairs!Agree, Pairs!Both
<1>2. ASSUME r.protocol = "ISO" PROVE i \in Pairs!IsoCandidates(ms, requests, r)
  <2>1. i \in byMti BY <1>2 DEF Pairs!Fits, Pairs!RepliedTo
  <2>2. i \in Pairs!Narrow(ms, byMti, r, "stan") BY <1>1, <2>1, NarrowKeeps
  <2> QED BY <2>1, <2>2 DEF Pairs!IsoCandidates
<1>3. i \in Pairs!Narrow(ms, requests, r, "transmission") BY <1>1, NarrowKeeps
<1>4. i \in Pairs!Narrow(ms, Pairs!Narrow(ms, requests, r, "transmission"), r, "sequence")
  BY <1>1, <1>3, NarrowKeeps
<1>5. i \in Pairs!SpdhCandidates(ms, requests, r) BY <1>4 DEF Pairs!SpdhCandidates
<1> QED BY <1>2, <1>5

\* Candidates are requests of the process.
LEMMA CandidatesAreRequests ==
    ASSUME NEW ms, NEW requests, NEW r
    PROVE  /\ Pairs!IsoCandidates(ms, requests, r) \subseteq requests
           /\ Pairs!SpdhCandidates(ms, requests, r) \subseteq requests
<1>1. Pairs!RepliedTo(ms, requests, r) \subseteq requests BY DEF Pairs!RepliedTo
<1>2. \A c : c \subseteq requests => \A key : Pairs!Narrow(ms, c, r, key) \subseteq requests BY NarrowIsPart
<1> QED BY <1>1, <1>2 DEF Pairs!IsoCandidates, Pairs!SpdhCandidates

\* A response that some request fits is never found to mismatch.
LEMMA NoMismatchIfOneFits ==
    ASSUME NEW ms, ms \in Seq(ToSet(ms)), NEW r, NEW i \in Pairs!Requests(ms, r.process), Pairs!Fits(ms[i], r)
    PROVE  "mismatch" \notin Pairs!Findings(ms, Pairs!Requests(ms, r.process), r)
<1> DEFINE requests == Pairs!Requests(ms, r.process)
<1>1. requests \subseteq DOMAIN ms BY DEF Pairs!Requests
<1>2. CASE r.protocol = "ISO"
  <2> DEFINE candidates == Pairs!IsoCandidates(ms, requests, r)
  <2>1. i \in candidates /\ candidates \subseteq DOMAIN ms
    BY <1>1, <1>2, FittingIsCandidate, CandidatesAreRequests
  <2>2. ~Pairs!Ambiguous(ms, candidates) => Pairs!First(ms, candidates).v = ms[i].v BY <2>1, FirstSays
  <2>3. \A key \in {"stan", "currency", "tid", "mid"} : ~Pairs!Different(ms[i], r, key)
    BY DEF Pairs!Fits, Pairs!Compared
  <2>4. ~Pairs!Ambiguous(ms, candidates) =>
            \A key \in {"stan", "currency", "tid", "mid"} : ~Pairs!Different(Pairs!First(ms, candidates), r, key)
    BY <2>2, <2>3 DEF Pairs!Different, Pairs!Both
  <2> HIDE DEF candidates
  <2>5. "mismatch" \notin Pairs!IsoFindings(ms, requests, r) BY <2>1, <2>4 DEF Pairs!IsoFindings, candidates
  <2> QED BY <1>2, <2>5 DEF Pairs!Findings
<1>3. CASE r.protocol # "ISO"
  <2> DEFINE candidates == Pairs!SpdhCandidates(ms, requests, r)
             keys == {"transmission", "tid", "mid", "currency", "stan", "transaction_code"}
  <2>1. i \in candidates /\ candidates \subseteq DOMAIN ms
    BY <1>1, FittingIsCandidate, CandidatesAreRequests
  <2>2. ~Pairs!Ambiguous(ms, candidates) => Pairs!First(ms, candidates).v = ms[i].v BY <2>1, FirstSays
  <2>3. \A key \in keys : ~Pairs!Different(ms[i], r, key) BY DEF Pairs!Fits, Pairs!Compared
  <2>4. ~Pairs!Ambiguous(ms, candidates) => \A key \in keys : ~Pairs!Different(Pairs!First(ms, candidates), r, key)
    BY <2>2, <2>3 DEF Pairs!Different, Pairs!Both
  <2> HIDE DEF candidates
  <2>5. "mismatch" \notin Pairs!SpdhFindings(ms, requests, r) BY <2>1, <2>4 DEF Pairs!SpdhFindings, candidates
  <2> QED BY <1>3, <2>5 DEF Pairs!Findings
<1> QED BY <1>2, <1>3

(***************************************************************************)
(* For any transaction: a mismatch of a request and a response             *)
(* (check_iso_messages, check_spdh_messages) is found only when some       *)
(* response has no request that fits it.                                   *)
(***************************************************************************)
THEOREM MismatchesAreSound == TypeOK => MismatchIsProved
<1> SUFFICES ASSUME TypeOK, NEW t \in ToSet(Transactions),
                    \A r \in ToSet(t.messages) : r.phase = "response" => \E m \in ToSet(t.messages) : Pairs!Fits(m, r)
             PROVE  "mismatch" \notin Pairs!Problems(t.messages)
  BY DEF MismatchIsProved
<1> DEFINE ms == t.messages
<1>1. ms \in Seq(ToSet(ms)) BY DEF TypeOK, IsTransaction
<1> HIDE DEF ms
<1>2. ASSUME NEW p, NEW r \in Pairs!Responses(ms, p)
      PROVE  "mismatch" \notin Pairs!Findings(ms, Pairs!Requests(ms, p), r)
  <2>1. r \in ToSet(ms) /\ r.process = p /\ r.phase = "response" BY DEF Pairs!Responses, ToSet, Pairs!ToSet
  <2>2. PICK m \in ToSet(ms) : Pairs!Fits(m, r) BY <2>1 DEF ms
  <2>3. PICK i \in DOMAIN ms : m = ms[i] BY DEF ToSet
  <2>4. i \in Pairs!Requests(ms, r.process) BY <2>2, <2>3 DEF Pairs!Fits, Pairs!Requests
  <2> QED BY <1>1, <2>1, <2>2, <2>3, <2>4, NoMismatchIfOneFits
<1>3. ASSUME NEW p PROVE "mismatch" \notin Pairs!GroupProblems(ms, p)
  <2> DEFINE requests == Pairs!Requests(ms, p)
             responses == Pairs!Responses(ms, p)
             found == UNION {Pairs!Findings(ms, requests, r) : r \in responses}
             missing == {f \in {"missing response"} : responses = {} /\ \E i \in requests : ~Pairs!OneWay(ms[i])}
             alone == {f \in {"no request"} : responses # {} /\ requests = {}}
             conflict == {f \in {"conflict"} : Pairs!Conflict(responses)}
  <2>1. "mismatch" \notin found BY <1>2
  <2>2. "mismatch" \notin missing /\ "mismatch" \notin alone /\ "mismatch" \notin conflict OBVIOUS
  <2>3. Pairs!GroupProblems(ms, p) = found \union missing \union alone \union conflict BY DEF Pairs!GroupProblems
  <2> HIDE DEF found, missing, alone, conflict
  <2> QED BY <2>1, <2>2, <2>3
<1> QED BY <1>3 DEF Pairs!Problems, ms

(***************************************************************************)
(* FindingsAreProved: for any log no error is found where it leaves a      *)
(* doubt, neither of a reversal and its original nor of a request and its  *)
(* response.                                                               *)
(***************************************************************************)
THEOREM FindingsProved == Spec => []FindingsAreProved
<1>1. TypeOK => FindingsAreProved BY MismatchesAreSound, ErrorsAreSound DEF FindingsAreProved
<1> QED BY <1>1, LogIsTyped, PTL

-----------------------------------------------------------------------------
(* Transactions in another order *)

\* A sequence in another order has the same members, as many.
LEMMA ReorderedIs ==
    ASSUME NEW s, s \in Seq(ToSet(s)), NEW r \in Reordered(s)
    PROVE  /\ r \in Seq(ToSet(s)) /\ ToSet(r) = ToSet(s) /\ DOMAIN r = DOMAIN s
           /\ \E p \in Bijection(DOMAIN s, DOMAIN s) : \A i \in DOMAIN s : r[i] = s[p[i]]
<1>1. PICK p \in Bijection(DOMAIN s, DOMAIN s) : r = [i \in DOMAIN s |-> s[p[i]]] BY DEF Reordered
<1>2. /\ p \in [DOMAIN s -> DOMAIN s]
      /\ \A i \in DOMAIN s : \E j \in DOMAIN s : p[j] = i
  BY DEF Bijection, Injection, Surjection
<1>3. PICK n \in Nat : DOMAIN s = 1..n OBVIOUS
<1>4. \A i \in 1..n : s[p[i]] \in ToSet(s) BY <1>2, <1>3 DEF ToSet
<1>5. r \in [1..n -> ToSet(s)] BY <1>1, <1>3, <1>4
<1>6. ToSet(r) = ToSet(s) BY <1>1, <1>2 DEF ToSet
<1> QED BY <1>1, <1>3, <1>5, <1>6

\* Transactions in another order keep uids of their own.
LEMMA ReorderedUids ==
    ASSUME NEW s, s \in Seq(ToSet(s)), NEW r \in Reordered(s), UidsDiffer(s)
    PROVE  UidsDiffer(r)
<1>1. PICK p \in Bijection(DOMAIN s, DOMAIN s) : \A i \in DOMAIN s : r[i] = s[p[i]] BY ReorderedIs
<1>2. \A i, j \in DOMAIN s : p[i] \in DOMAIN s /\ (p[i] = p[j] => i = j)
  BY DEF Bijection, Injection, IsInjective
<1>3. DOMAIN r = DOMAIN s BY ReorderedIs
<1>4. ASSUME NEW i \in DOMAIN s, NEW j \in DOMAIN s, r[i].uid = r[j].uid PROVE i = j
  <2>1. s[p[i]].uid = s[p[j]].uid BY <1>1, <1>4
  <2>2. p[i] = p[j] BY <1>2, <2>1 DEF UidsDiffer
  <2> QED BY <1>2, <2>2
<1> QED BY <1>3, <1>4 DEF UidsDiffer

\* An original wherever it is.
LEMMA OriginalElsewhere ==
    ASSUME NEW ts, NEW us, ToSet(ts) \subseteq ToSet(us), NEW o \in Originals(ts)
    PROVE  \E p \in Originals(us) : p.uid = o.uid /\ p.process = o.process /\ p.v = o.v
<1>1. PICK i \in DOMAIN ts : ~ts[i].exempt /\ \E j \in DOMAIN ts[i].messages :
                 IsRequest(ts[i].messages[j]) /\ o = Original(ts, i, j)
  BY OriginalIs
<1>2. PICK j \in DOMAIN ts[i].messages : IsRequest(ts[i].messages[j]) /\ o = Original(ts, i, j) BY <1>1
<1>3. PICK k \in DOMAIN us : us[k] = ts[i] BY DEF ToSet
<1>4. Original(us, k, j) \in Originals(us) BY <1>1, <1>2, <1>3, OriginalIs
<1> QED BY <1>2, <1>3, <1>4 DEF Original

\* Nor does it matter for a candidate where it is ...
LEMMA CandidateElsewhere ==
    ASSUME NEW ts, NEW us, ToSet(ts) \subseteq ToSet(us), NEW uid, NEW m, NEW useRrn,
           NEW o \in Candidates(ts, uid, m, useRrn)
    PROVE  \E p \in Candidates(us, uid, m, useRrn) : p.uid = o.uid /\ p.v = o.v
<1>1. /\ o \in Originals(ts) /\ Refers(m, o, Reference(m.v, useRrn)) /\ o.uid # uid /\ InTime(m, o)
  BY DEF Candidates
<1>2. PICK p \in Originals(us) : p.uid = o.uid /\ p.process = o.process /\ p.v = o.v
  BY <1>1, OriginalElsewhere
<1>3. Refers(m, p, Reference(m.v, useRrn)) /\ p.uid # uid /\ InTime(m, p)
  BY <1>1, <1>2 DEF Refers, InTime
<1> QED BY <1>2, <1>3 DEF Candidates

\* Candidates that say the same, and are as many, give the same findings.
LEMMA FindingsBy ==
    ASSUME NEW found, NEW other, NEW m, NEW C, NEW D, NEW o, NEW p, NEW useRrn,
           Finds(found, m, C, o, useRrn), Finds(other, m, D, p, useRrn),
           C = {} <=> D = {}, Several(C) <=> Several(D),
           C # {} /\ ~Several(C) => o.v = p.v
    PROVE  found = other
<1>1. ASSUME C # {}, ~Several(C)
      PROVE  /\ Mismatched(m, o, useRrn) <=> Mismatched(m, p, useRrn)
             /\ MtiDiffers(m, o) /\ NbgMapping(m, o) <=> MtiDiffers(m, p) /\ NbgMapping(m, p)
  BY <1>1, MismatchOfFields DEF MtiDiffers, NbgMapping
<1>2. \A problem \in {"no reference", "not found", "ambiguous", "mismatch", "NBG mapping"} :
          problem \in found <=> problem \in other
  BY <1>1 DEF Finds
<1>3. /\ found \subseteq {"no reference", "not found", "ambiguous", "mismatch", "NBG mapping"}
      /\ other \subseteq {"no reference", "not found", "ambiguous", "mismatch", "NBG mapping"}
  BY DEF Finds
<1>4. \A problem : problem \in found <=> problem \in other BY <1>2, <1>3
<1>5. found \subseteq other /\ other \subseteq found BY <1>4
<1> QED BY <1>3, <1>5

\* ... and so what is found of a request is the same.
LEMMA FindingsElsewhere ==
    ASSUME NEW ts, NEW us, AreTransactions(ts), AreTransactions(us), ToSet(ts) = ToSet(us),
           NEW uid, NEW m, NEW useRrn
    PROVE  FindingsOf(ts, uid, m, useRrn) = FindingsOf(us, uid, m, useRrn)
<1> DEFINE C == Candidates(ts, uid, m, useRrn)
           D == Candidates(us, uid, m, useRrn)
<1>1. \A o \in C : \E p \in D : p.uid = o.uid /\ p.v = o.v BY CandidateElsewhere
<1>2. \A p \in D : \E o \in C : p.uid = o.uid /\ p.v = o.v BY CandidateElsewhere
<1>3. C = {} <=> D = {} BY <1>1, <1>2
<1>4. Several(C) <=> Several(D)
  <2>1. Several(C) => Several(D) BY <1>1 DEF Several
  <2>2. Several(D) => Several(C) BY <1>2 DEF Several
  <2> QED BY <2>1, <2>2
<1>5. ASSUME C # {}, ~Several(C) PROVE First(C).v = First(D).v
  <2>1. C \subseteq Originals(ts) /\ D \subseteq Originals(us) BY DEF Candidates
  <2>2. First(C) \in C /\ First(D) \in D BY <1>3, <1>5, <2>1, FirstIsOne
  <2>3. PICK o \in C : First(D).v = o.v BY <1>2, <2>2
  <2> QED BY <1>5, <2>2, <2>3 DEF Several
<1>6. Finds(FindingsOf(ts, uid, m, useRrn), m, C, First(C), useRrn) BY FindingIs
<1>7. Finds(FindingsOf(us, uid, m, useRrn), m, D, First(D), useRrn) BY FindingIs
<1> HIDE DEF C, D
<1> QED BY <1>3, <1>4, <1>5, <1>6, <1>7, FindingsBy

\* For any transactions in any order the checks of originals find the same.
LEMMA OriginalsInAnyOrder == TypeOK => OriginalsOrderFree
<1> SUFFICES ASSUME TypeOK, NEW ts \in Reordered(Transactions)
             PROVE  /\ \A t \in Reversals, useRrn \in BOOLEAN :
                           OriginalProblems(ts, t, useRrn) = OriginalProblems(Transactions, t, useRrn)
                    /\ SharedRrns(ts) = SharedRrns(Transactions)
  BY DEF OriginalsOrderFree
<1> DEFINE us == Transactions
<1>1. AreTransactions(us) /\ UidsDiffer(us) BY TransactionsTyped DEF UidsDiffer
<1> HIDE DEF us
<1>2. us \in Seq(ToSet(us)) BY <1>1 DEF AreTransactions
<1>3. ts \in Seq(ToSet(us)) /\ ToSet(ts) = ToSet(us) /\ UidsDiffer(ts)
  BY <1>1, <1>2, ReorderedIs, ReorderedUids DEF us
<1>4. AreTransactions(ts) BY <1>1, <1>3 DEF AreTransactions
<1>5. \A uid, m, useRrn : FindingsOf(ts, uid, m, useRrn) = FindingsOf(us, uid, m, useRrn)
  BY <1>1, <1>3, <1>4, FindingsElsewhere
<1>6. \A t, useRrn : OriginalProblems(ts, t, useRrn) = OriginalProblems(us, t, useRrn)
  BY <1>5 DEF OriginalProblems
<1>7. SharedRrns(ts) = SharedRrns(us) BY <1>1, <1>2, <1>3, SharedIs
<1> QED BY <1>6, <1>7 DEF us
-----------------------------------------------------------------------------
(* Messages in another order *)

\* What the messages at some places say.
Sayings(ms, places) == {ms[i] : i \in places}

\* Two sets of places that say the same say it at some place each.
LEMMA SaidBoth ==
    ASSUME NEW ms, NEW C, NEW ns, NEW D, Sayings(ms, C) = Sayings(ns, D)
    PROVE  /\ \A i \in C : \E j \in D : ns[j] = ms[i]
           /\ \A j \in D : \E i \in C : ns[j] = ms[i]
<1>1. \A i \in C : ms[i] \in Sayings(ns, D) BY DEF Sayings
<1>2. \A j \in D : ns[j] \in Sayings(ms, C) BY DEF Sayings
<1> QED BY <1>1, <1>2 DEF Sayings

\* Parts of them, chosen by what is said, say the same.
LEMMA SaidPart ==
    ASSUME NEW ms, NEW C, NEW ns, NEW D, Sayings(ms, C) = Sayings(ns, D),
           NEW B, NEW E, B \subseteq C, E \subseteq D,
           \A i \in C, j \in D : ms[i] = ns[j] => (i \in B <=> j \in E)
    PROVE  Sayings(ms, B) = Sayings(ns, E)
<1>1. ASSUME NEW i \in B PROVE ms[i] \in Sayings(ns, E)
  <2>1. PICK j \in D : ns[j] = ms[i] BY SaidBoth
  <2>2. j \in E BY <2>1
  <2> QED BY <2>1, <2>2 DEF Sayings
<1>2. ASSUME NEW j \in E PROVE ns[j] \in Sayings(ms, B)
  <2>1. PICK i \in C : ns[j] = ms[i] BY SaidBoth
  <2>2. i \in B BY <2>1
  <2> QED BY <2>1, <2>2 DEF Sayings
<1>3. Sayings(ms, B) \subseteq Sayings(ns, E) BY <1>1 DEF Sayings
<1>4. Sayings(ns, E) \subseteq Sayings(ms, B) BY <1>2 DEF Sayings
<1> QED BY <1>3, <1>4

\* One is empty when the other is.
LEMMA SaidNone ==
    ASSUME NEW ms, NEW C, NEW ns, NEW D, Sayings(ms, C) = Sayings(ns, D)
    PROVE  C = {} <=> D = {}
BY SaidBoth

\* Narrowing is a choice by what is said ...
LEMMA NarrowSaid ==
    ASSUME NEW ms, NEW C, NEW ns, NEW D, Sayings(ms, C) = Sayings(ns, D), NEW r, NEW key
    PROVE  Sayings(ms, Pairs!Narrow(ms, C, r, key)) = Sayings(ns, Pairs!Narrow(ns, D, r, key))
<1> DEFINE B == {i \in C : Pairs!Agree(ms[i], r, key)}
           E == {j \in D : Pairs!Agree(ns[j], r, key)}
<1>1. Sayings(ms, B) = Sayings(ns, E)
  <2>1. B \subseteq C /\ E \subseteq D OBVIOUS
  <2>2. \A i \in C, j \in D : ms[i] = ns[j] => (i \in B <=> j \in E) OBVIOUS
  <2> HIDE DEF B, E
  <2> QED BY <2>1, <2>2, SaidPart
<1>2. B = {} <=> E = {}
  <2> HIDE DEF B, E
  <2> QED BY <1>1, SaidNone
<1> QED BY <1>1, <1>2 DEF Pairs!Narrow

\* ... and so is a doubt: by the values of the candidates, not by their number.
LEMMA AmbiguityElsewhere ==
    ASSUME NEW ms, NEW C, NEW ns, NEW D, Sayings(ms, C) = Sayings(ns, D), Pairs!Ambiguous(ns, D)
    PROVE  Pairs!Ambiguous(ms, C)
<1>1. PICK j \in D, k \in D : ns[j].v # ns[k].v BY DEF Pairs!Ambiguous
<1>2. PICK i \in C : ns[j] = ms[i] BY SaidBoth
<1>3. PICK l \in C : ns[k] = ms[l] BY SaidBoth
<1> QED BY <1>1, <1>2, <1>3 DEF Pairs!Ambiguous

\* A doubt in one is a doubt in the other.
LEMMA AmbiguousSaid ==
    ASSUME NEW ms, NEW C, NEW ns, NEW D, Sayings(ms, C) = Sayings(ns, D)
    PROVE  Pairs!Ambiguous(ms, C) <=> Pairs!Ambiguous(ns, D)
BY AmbiguityElsewhere

AreMessages(ms) == ms \in Seq(ToSet(ms))

\* Without a doubt the first of each says the same.
LEMMA FirstSaid ==
    ASSUME NEW ms, NEW C, NEW ns, NEW D, Sayings(ms, C) = Sayings(ns, D),
           AreMessages(ms), AreMessages(ns), C \subseteq DOMAIN ms, D \subseteq DOMAIN ns,
           C # {}, ~Pairs!Ambiguous(ms, C)
    PROVE  Pairs!First(ms, C).v = Pairs!First(ns, D).v
<1>1. PICK i \in C : TRUE OBVIOUS
<1>2. PICK j \in D : ns[j] = ms[i] BY SaidBoth
<1>3. ~Pairs!Ambiguous(ns, D) BY AmbiguousSaid
<1>4. Pairs!First(ms, C).v = ms[i].v BY FirstSays DEF AreMessages
<1>5. Pairs!First(ns, D).v = ns[j].v BY <1>3, FirstSays DEF AreMessages
<1> QED BY <1>2, <1>4, <1>5

-----------------------------------------------------------------------------
(* Candidates, whatever their number *)

\* What Cardinality says of candidates.
LEMMA OneOrNone ==
    ASSUME NEW C, IsFiniteSet(C)
    PROVE  /\ ~(Pairs!Cardinality(C) > 1) => \A i, j \in C : i = j
           /\ Pairs!Cardinality(C) = 1 <=> \E i : C = {i}
<1>1. Pairs!Cardinality(C) = Cardinality(C)
  BY DEF Cardinality, Pairs!Cardinality, IsFiniteSet, Pairs!IsFiniteSet
<1>2. Cardinality(C) \in Nat BY FS_CardinalityType
<1>3. Cardinality(C) = 0 <=> C = {} BY FS_EmptySet
<1>4. Cardinality(C) = 1 <=> \E i : C = {i} BY FS_Singleton
<1> QED BY <1>1, <1>2, <1>3, <1>4

\* There is nothing to narrow in one candidate ...
LEMMA NarrowOne ==
    ASSUME NEW ms, NEW C, NEW r, NEW key, \A i, j \in C : i = j
    PROVE  Pairs!Narrow(ms, C, r, key) = C
BY DEF Pairs!Narrow

\* ... or by a number the response does not have.
LEMMA NarrowWithout ==
    ASSUME NEW ms, NEW C, NEW r, NEW key, r.v[key] = Pairs!None
    PROVE  Pairs!Narrow(ms, C, r, key) = C
<1>1. \A i : ~Pairs!Agree(ms[i], r, key) BY DEF Pairs!Agree, Pairs!Both
<1> QED BY <1>1 DEF Pairs!Narrow

IsoBase(ms, requests, r) ==
    IF Pairs!RepliedTo(ms, requests, r) # {} THEN Pairs!RepliedTo(ms, requests, r)
    ELSE IF \E i : requests = {i} THEN requests ELSE {}

\* ISO candidates without a count of them (233-243).
LEMMA IsoCandidatesAre ==
    ASSUME NEW ms, NEW requests, IsFiniteSet(requests), NEW r
    PROVE  Pairs!IsoCandidates(ms, requests, r) = Pairs!Narrow(ms, IsoBase(ms, requests, r), r, "stan")
<1> DEFINE base == IsoBase(ms, requests, r)
<1>1. base \subseteq requests BY DEF IsoBase, Pairs!RepliedTo
<1>2. IsFiniteSet(base) BY <1>1, FS_Subset
<1>3. Pairs!IsoCandidates(ms, requests, r) =
          IF Pairs!Cardinality(base) > 1 /\ r.v["stan"] # Pairs!None THEN Pairs!Narrow(ms, base, r, "stan") ELSE base
  BY OneOrNone DEF Pairs!IsoCandidates, IsoBase
<1> HIDE DEF base
<1>4. ~(Pairs!Cardinality(base) > 1) => Pairs!Narrow(ms, base, r, "stan") = base BY <1>2, OneOrNone, NarrowOne
<1>5. r.v["stan"] = Pairs!None => Pairs!Narrow(ms, base, r, "stan") = base BY NarrowWithout
<1>6. Pairs!IsoCandidates(ms, requests, r) = Pairs!Narrow(ms, base, r, "stan") BY <1>3, <1>4, <1>5
<1> QED BY <1>6 DEF base

\* SPDH candidates without a count of them (98-104).
LEMMA SpdhCandidatesAre ==
    ASSUME NEW ms, NEW requests, IsFiniteSet(requests), NEW r
    PROVE  Pairs!SpdhCandidates(ms, requests, r) =
               Pairs!Narrow(ms, Pairs!Narrow(ms, requests, r, "transmission"), r, "sequence")
<1>1. ~(Pairs!Cardinality(requests) > 1) =>
          /\ Pairs!Narrow(ms, requests, r, "transmission") = requests
          /\ Pairs!Narrow(ms, requests, r, "sequence") = requests
  BY OneOrNone, NarrowOne
<1> QED BY <1>1 DEF Pairs!SpdhCandidates

-----------------------------------------------------------------------------
(* What is found in another order *)

\* Messages are said to be the same, and only one request of a process was
\* one before.
AsMany(ns, ms) ==
    /\ AreMessages(ms) /\ AreMessages(ns) /\ ToSet(ns) = ToSet(ms)
    /\ \A process : (\E j : Pairs!Requests(ns, process) = {j}) => (\E i : Pairs!Requests(ms, process) = {i})

\* The requests of a process say the same in another order.
LEMMA RequestsSaid ==
    ASSUME NEW ms, NEW ns, ToSet(ns) = ToSet(ms), NEW process
    PROVE  Sayings(ms, Pairs!Requests(ms, process)) = Sayings(ns, Pairs!Requests(ns, process))
<1>1. Sayings(ms, DOMAIN ms) = Sayings(ns, DOMAIN ns) BY DEF Sayings, ToSet
<1>2. /\ Pairs!Requests(ms, process) \subseteq DOMAIN ms /\ Pairs!Requests(ns, process) \subseteq DOMAIN ns
      /\ \A i \in DOMAIN ms, j \in DOMAIN ns :
             ms[i] = ns[j] => (i \in Pairs!Requests(ms, process) <=> j \in Pairs!Requests(ns, process))
  BY DEF Pairs!Requests
<1> QED BY <1>1, <1>2, SaidPart

\* They are finitely many.
LEMMA RequestsFinite ==
    ASSUME NEW ms, AreMessages(ms), NEW process
    PROVE  IsFiniteSet(Pairs!Requests(ms, process)) /\ Pairs!Requests(ms, process) \subseteq DOMAIN ms
<1>1. PICK n \in Nat : DOMAIN ms = 1..n BY DEF AreMessages
<1>2. Pairs!Requests(ms, process) \in SUBSET (1..n) BY <1>1 DEF Pairs!Requests
<1>3. IsFiniteSet(1..n) BY FS_Interval
<1> QED BY <1>1, <1>2, <1>3, FS_Subset

\* Those a response answers by its MTI say the same.
LEMMA RepliedSaid ==
    ASSUME NEW ms, NEW C, NEW ns, NEW D, Sayings(ms, C) = Sayings(ns, D), NEW r
    PROVE  Sayings(ms, Pairs!RepliedTo(ms, C, r)) = Sayings(ns, Pairs!RepliedTo(ns, D, r))
<1>1. /\ Pairs!RepliedTo(ms, C, r) \subseteq C /\ Pairs!RepliedTo(ns, D, r) \subseteq D
      /\ \A i \in C, j \in D : ms[i] = ns[j] => (i \in Pairs!RepliedTo(ms, C, r) <=> j \in Pairs!RepliedTo(ns, D, r))
  BY DEF Pairs!RepliedTo
<1> QED BY <1>1, SaidPart
\* What is found of a response, by its candidates.
Unexpected(r, none, some) ==
    {f \in {"unexpected MTI"} :
        /\ r.v["mti"] \in DOMAIN Pairs!ResponseMti \union {Pairs!ResponseMti[n] : n \in DOMAIN Pairs!ResponseMti}
        /\ some
        /\ none}
IsoCompared(request, r) ==
    {f \in {"mismatch"} : \E key \in {"stan", "currency", "tid", "mid"} : Pairs!Different(request, r, key)}
    \union {f \in {"amount"} : Pairs!Different(request, r, "amount")}
OfIso(ms, candidates, r) ==
    CASE candidates = {} -> {}
      [] Pairs!Ambiguous(ms, candidates) -> {"ambiguous"}
      [] OTHER -> IsoCompared(Pairs!First(ms, candidates), r)
SpdhCompared(request, r) ==
    {f \in {"mismatch"} :
        \E key \in {"transmission", "tid", "mid", "currency", "stan", "transaction_code"} :
            Pairs!Different(request, r, key)}
    \union {f \in {"resynchronization"} : Pairs!Different(request, r, "sequence")}
    \union {f \in {"amount"} : Pairs!Different(request, r, "amount")}
OfSpdh(ms, candidates, r) ==
    CASE candidates = {} -> {}
      [] Pairs!Ambiguous(ms, candidates) -> {"ambiguous"}
      [] OTHER -> SpdhCompared(Pairs!First(ms, candidates), r)

\* Nothing new is found of a response, if what is compared with it is none or
\* the same.
LEMMA IsoFindingsSaid ==
    ASSUME NEW ms, NEW ns, AsMany(ns, ms), NEW process, NEW r
    PROVE  Pairs!IsoFindings(ns, Pairs!Requests(ns, process), r)
               \subseteq Pairs!IsoFindings(ms, Pairs!Requests(ms, process), r)
<1> DEFINE R == Pairs!Requests(ms, process)
           Q == Pairs!Requests(ns, process)
           C == Pairs!IsoCandidates(ms, R, r)
           D == Pairs!IsoCandidates(ns, Q, r)
<1>1. Sayings(ms, R) = Sayings(ns, Q) BY RequestsSaid DEF AsMany
<1>2. /\ IsFiniteSet(R) /\ R \subseteq DOMAIN ms /\ IsFiniteSet(Q) /\ Q \subseteq DOMAIN ns
      /\ AreMessages(ms) /\ AreMessages(ns)
  BY RequestsFinite DEF AsMany
<1>3. (\E j : Q = {j}) => (\E i : R = {i}) BY DEF AsMany
<1>4. C \subseteq DOMAIN ms /\ D \subseteq DOMAIN ns BY <1>2, CandidatesAreRequests
<1> HIDE DEF R, Q
<1>5. Sayings(ms, Pairs!RepliedTo(ms, R, r)) = Sayings(ns, Pairs!RepliedTo(ns, Q, r)) BY <1>1, RepliedSaid
<1>6. Pairs!RepliedTo(ms, R, r) = {} <=> Pairs!RepliedTo(ns, Q, r) = {} BY <1>5, SaidNone
<1>7. D = {} \/ Sayings(ms, C) = Sayings(ns, D)
  <2>1. C = Pairs!Narrow(ms, IsoBase(ms, R, r), r, "stan") BY <1>2, IsoCandidatesAre
  <2>2. D = Pairs!Narrow(ns, IsoBase(ns, Q, r), r, "stan") BY <1>2, IsoCandidatesAre
  <2>3. IsoBase(ns, Q, r) = {} \/ Sayings(ms, IsoBase(ms, R, r)) = Sayings(ns, IsoBase(ns, Q, r))
    BY <1>1, <1>3, <1>5, <1>6 DEF IsoBase
  <2>4. IsoBase(ns, Q, r) = {} => D = {} BY <2>2, NarrowIsPart
  <2> QED BY <2>1, <2>2, <2>3, <2>4, NarrowSaid
<1>8. (\E i \in R : ms[i].v["mti"] \in DOMAIN Pairs!ResponseMti) <=>
          (\E j \in Q : ns[j].v["mti"] \in DOMAIN Pairs!ResponseMti)
  <2>1. \A i \in R : \E j \in Q : ns[j] = ms[i] BY <1>1, SaidBoth
  <2>2. \A j \in Q : \E i \in R : ns[j] = ms[i] BY <1>1, SaidBoth
  <2> QED BY <2>1, <2>2
<1> HIDE DEF C, D
<1>9. ASSUME D # {}
      PROVE  /\ C # {} /\ (Pairs!Ambiguous(ms, C) <=> Pairs!Ambiguous(ns, D))
             /\ ~Pairs!Ambiguous(ms, C) => Pairs!First(ms, C).v = Pairs!First(ns, D).v
  <2>1. Sayings(ms, C) = Sayings(ns, D) BY <1>7, <1>9
  <2>2. C # {} BY <1>9, <2>1, SaidNone
  <2> QED BY <1>2, <1>4, <2>1, <2>2, AmbiguousSaid, FirstSaid
<1>10. ASSUME D # {}, ~Pairs!Ambiguous(ms, C), NEW key
       PROVE  Pairs!Different(Pairs!First(ms, C), r, key) <=> Pairs!Different(Pairs!First(ns, D), r, key)
  BY <1>9, <1>10 DEF Pairs!Different, Pairs!Both
<1> DEFINE none == Pairs!RepliedTo(ms, R, r) = {}
           some == \E i \in R : ms[i].v["mti"] \in DOMAIN Pairs!ResponseMti
<1>11. Pairs!IsoFindings(ms, R, r) = Unexpected(r, none, some) \union OfIso(ms, C, r)
  BY DEF Pairs!IsoFindings, C, Unexpected, OfIso, IsoCompared
<1>12. Pairs!IsoFindings(ns, Q, r) =
           Unexpected(r, Pairs!RepliedTo(ns, Q, r) = {}, \E j \in Q : ns[j].v["mti"] \in DOMAIN Pairs!ResponseMti)
           \union OfIso(ns, D, r)
  BY DEF Pairs!IsoFindings, D, Unexpected, OfIso, IsoCompared
<1>13. Unexpected(r, none, some) =
           Unexpected(r, Pairs!RepliedTo(ns, Q, r) = {}, \E j \in Q : ns[j].v["mti"] \in DOMAIN Pairs!ResponseMti)
  BY <1>6, <1>8 DEF Unexpected
<1> HIDE DEF none, some
<1>14. OfIso(ns, D, r) \subseteq OfIso(ms, C, r)
  <2>1. CASE D = {} BY <2>1 DEF OfIso, Pairs!Ambiguous
  <2>2. CASE D # {} /\ Pairs!Ambiguous(ns, D) BY <1>9, <2>2 DEF OfIso
  <2>3. CASE D # {} /\ ~Pairs!Ambiguous(ns, D)
    <3>1. C # {} /\ ~Pairs!Ambiguous(ms, C) BY <1>9, <2>3
    <3>2. IsoCompared(Pairs!First(ms, C), r) = IsoCompared(Pairs!First(ns, D), r)
      BY <1>10, <2>3, <3>1 DEF IsoCompared
    <3> QED BY <2>3, <3>1, <3>2 DEF OfIso
  <2> QED BY <2>1, <2>2, <2>3
<1> QED BY <1>11, <1>12, <1>13, <1>14 DEF R, Q

\* The same of SPDH.
LEMMA SpdhFindingsSaid ==
    ASSUME NEW ms, NEW ns, AsMany(ns, ms), NEW process, NEW r
    PROVE  Pairs!SpdhFindings(ns, Pairs!Requests(ns, process), r)
               \subseteq Pairs!SpdhFindings(ms, Pairs!Requests(ms, process), r)
<1> DEFINE R == Pairs!Requests(ms, process)
           Q == Pairs!Requests(ns, process)
           C == Pairs!SpdhCandidates(ms, R, r)
           D == Pairs!SpdhCandidates(ns, Q, r)
<1>1. Sayings(ms, R) = Sayings(ns, Q) BY RequestsSaid DEF AsMany
<1>2. /\ IsFiniteSet(R) /\ R \subseteq DOMAIN ms /\ IsFiniteSet(Q) /\ Q \subseteq DOMAIN ns
      /\ AreMessages(ms) /\ AreMessages(ns)
  BY RequestsFinite DEF AsMany
<1>3. C \subseteq DOMAIN ms /\ D \subseteq DOMAIN ns BY <1>2, CandidatesAreRequests
<1> HIDE DEF R, Q
<1>4. Sayings(ms, C) = Sayings(ns, D)
  <2>1. /\ C = Pairs!Narrow(ms, Pairs!Narrow(ms, R, r, "transmission"), r, "sequence")
        /\ D = Pairs!Narrow(ns, Pairs!Narrow(ns, Q, r, "transmission"), r, "sequence")
    BY <1>2, SpdhCandidatesAre
  <2>2. Sayings(ms, Pairs!Narrow(ms, R, r, "transmission")) = Sayings(ns, Pairs!Narrow(ns, Q, r, "transmission"))
    BY <1>1, NarrowSaid
  <2> QED BY <2>1, <2>2, NarrowSaid
<1> HIDE DEF C, D
<1>5. C = {} <=> D = {} BY <1>4, SaidNone
<1>6. ASSUME C # {}
      PROVE  /\ Pairs!Ambiguous(ms, C) <=> Pairs!Ambiguous(ns, D)
             /\ ~Pairs!Ambiguous(ms, C) => Pairs!First(ms, C).v = Pairs!First(ns, D).v
  BY <1>2, <1>3, <1>4, <1>6, AmbiguousSaid, FirstSaid
<1>7. ASSUME C # {}, ~Pairs!Ambiguous(ms, C), NEW key
      PROVE  Pairs!Different(Pairs!First(ms, C), r, key) <=> Pairs!Different(Pairs!First(ns, D), r, key)
  BY <1>6, <1>7 DEF Pairs!Different, Pairs!Both
<1>8. Pairs!SpdhFindings(ms, R, r) = OfSpdh(ms, C, r)
  BY DEF Pairs!SpdhFindings, C, OfSpdh, SpdhCompared
<1>9. Pairs!SpdhFindings(ns, Q, r) = OfSpdh(ns, D, r)
  BY DEF Pairs!SpdhFindings, D, OfSpdh, SpdhCompared
<1>10. OfSpdh(ns, D, r) = OfSpdh(ms, C, r)
  <2>1. CASE C = {} BY <1>5, <2>1 DEF OfSpdh, Pairs!Ambiguous
  <2>2. CASE C # {} /\ Pairs!Ambiguous(ms, C) BY <1>5, <1>6, <2>2 DEF OfSpdh
  <2>3. CASE C # {} /\ ~Pairs!Ambiguous(ms, C)
    <3>1. D # {} /\ ~Pairs!Ambiguous(ns, D) BY <1>5, <1>6, <2>3
    <3>2. SpdhCompared(Pairs!First(ms, C), r) = SpdhCompared(Pairs!First(ns, D), r)
      BY <1>7, <2>3 DEF SpdhCompared
    <3> QED BY <2>3, <3>1, <3>2 DEF OfSpdh
  <2> QED BY <2>1, <2>2, <2>3
<1> QED BY <1>8, <1>9, <1>10 DEF R, Q

\* Nothing new is found of the messages of a transaction.
LEMMA ProblemsSaid ==
    ASSUME NEW ms, NEW ns, AsMany(ns, ms)
    PROVE  Pairs!Problems(ns) \subseteq Pairs!Problems(ms)
<1>1. ToSet(ns) = ToSet(ms) /\ Pairs!ToSet(ns) = Pairs!ToSet(ms) BY DEF AsMany, ToSet, Pairs!ToSet
<1>2. ASSUME NEW process PROVE Pairs!GroupProblems(ns, process) \subseteq Pairs!GroupProblems(ms, process)
  <2> DEFINE R == Pairs!Requests(ms, process)
             Q == Pairs!Requests(ns, process)
             responses == Pairs!Responses(ms, process)
             found(ts, requests) == UNION {Pairs!Findings(ts, requests, r) : r \in responses}
             missing(some) == {f \in {"missing response"} : responses = {} /\ some}
             alone(none) == {f \in {"no request"} : responses # {} /\ none}
             conflict == {f \in {"conflict"} : Pairs!Conflict(responses)}
  <2>1. Pairs!Responses(ns, process) = responses BY <1>1 DEF Pairs!Responses
  <2>2. found(ns, Q) \subseteq found(ms, R)
    <3>1. \A r : Pairs!Findings(ns, Q, r) \subseteq Pairs!Findings(ms, R, r)
      BY IsoFindingsSaid, SpdhFindingsSaid DEF Pairs!Findings
    <3> HIDE DEF responses, Q, R
    <3> QED BY <3>1
  <2>3. Sayings(ms, R) = Sayings(ns, Q) BY <1>1, RequestsSaid
  <2>4. (\E i \in R : ~Pairs!OneWay(ms[i])) <=> (\E j \in Q : ~Pairs!OneWay(ns[j]))
    <3> HIDE DEF Q, R
    <3> QED BY <2>3, SaidBoth
  <2>5. R = {} <=> Q = {}
    <3> HIDE DEF Q, R
    <3> QED BY <2>3, SaidNone
  <2>6. Pairs!GroupProblems(ms, process) =
            found(ms, R) \union missing(\E i \in R : ~Pairs!OneWay(ms[i])) \union alone(R = {}) \union conflict
    BY DEF Pairs!GroupProblems
  <2>7. Pairs!GroupProblems(ns, process) =
            found(ns, Q) \union missing(\E j \in Q : ~Pairs!OneWay(ns[j])) \union alone(Q = {}) \union conflict
    BY <2>1 DEF Pairs!GroupProblems
  <2> HIDE DEF found, conflict, Q, R, responses
  <2>8. missing(\E i \in R : ~Pairs!OneWay(ms[i])) = missing(\E j \in Q : ~Pairs!OneWay(ns[j])) BY <2>4
  <2>9. alone(R = {}) = alone(Q = {}) BY <2>5
  <2> HIDE DEF missing, alone
  <2> QED BY <2>2, <2>6, <2>7, <2>8, <2>9
<1> QED BY <1>1, <1>2 DEF Pairs!Problems

\* Neighbours change places.
LEMMA SwappedIsAsMany ==
    ASSUME NEW ms, AreMessages(ms), NEW ns \in Swapped(ms)
    PROVE  AsMany(ns, ms) /\ AsMany(ms, ns)
<1>1. PICK i \in 1..(Len(ms) - 1) : ns = [ms EXCEPT ![i] = ms[i + 1], ![i + 1] = ms[i]] BY DEF Swapped
<1> DEFINE to(j) == IF j = i THEN i + 1 ELSE IF j = i + 1 THEN i ELSE j
<1>2. /\ DOMAIN ms = 1..Len(ms) /\ DOMAIN ns = 1..Len(ms) /\ Len(ms) \in Nat
      /\ \A j \in 1..Len(ms) : ns[j] = ms[to(j)] /\ to(j) \in 1..Len(ms) /\ to(to(j)) = j
  BY <1>1 DEF AreMessages
<1> HIDE DEF to
<1>3. \A j \in 1..Len(ms) : ms[j] = ns[to(j)] BY <1>2
<1>4. ToSet(ns) = ToSet(ms) BY <1>2, <1>3 DEF ToSet
<1>5. ns \in [1..Len(ms) -> ToSet(ns)] BY <1>1, <1>2 DEF ToSet, AreMessages
<1>6. AreMessages(ns) BY <1>2, <1>5 DEF AreMessages
<1>7. \A process : \A j \in 1..Len(ms) : j \in Pairs!Requests(ns, process) <=> to(j) \in Pairs!Requests(ms, process)
  BY <1>2 DEF Pairs!Requests
<1>8. \A process : Pairs!Requests(ns, process) \subseteq 1..Len(ms) /\ Pairs!Requests(ms, process) \subseteq 1..Len(ms)
  BY <1>2 DEF Pairs!Requests
<1>9. ASSUME NEW process, NEW j, Pairs!Requests(ns, process) = {j} PROVE Pairs!Requests(ms, process) = {to(j)}
  BY <1>2, <1>7, <1>8, <1>9
<1>10. ASSUME NEW process, NEW j, Pairs!Requests(ms, process) = {j} PROVE Pairs!Requests(ns, process) = {to(j)}
  BY <1>2, <1>7, <1>8, <1>10
<1> QED BY <1>4, <1>6, <1>9, <1>10 DEF AsMany

\* A message is there once more.
LEMMA AppendedIsAsMany ==
    ASSUME NEW ms, AreMessages(ms), NEW m \in ToSet(ms)
    PROVE  AsMany(Append(ms, m), ms)
<1> DEFINE ns == Append(ms, m)
<1>1. /\ ms \in Seq(ToSet(ms)) /\ ns \in Seq(ToSet(ms))
      /\ DOMAIN ms = 1..Len(ms) /\ DOMAIN ns = 1..(Len(ms) + 1) /\ Len(ms) \in Nat
      /\ \A j \in 1..Len(ms) : ns[j] = ms[j]
      /\ ns[Len(ms) + 1] = m
  BY DEF AreMessages
<1> HIDE DEF ns
<1>2. ToSet(ns) = ToSet(ms) BY <1>1 DEF ToSet
<1>3. AreMessages(ns) /\ AreMessages(ms) BY <1>1, <1>2 DEF AreMessages
<1>4. ASSUME NEW process, NEW j, Pairs!Requests(ns, process) = {j}
      PROVE  \E i : Pairs!Requests(ms, process) = {i}
  <2>1. Pairs!Requests(ms, process) \subseteq {j} BY <1>1, <1>4 DEF Pairs!Requests
  <2>2. Sayings(ms, Pairs!Requests(ms, process)) = Sayings(ns, Pairs!Requests(ns, process)) BY <1>2, RequestsSaid
  <2>3. Pairs!Requests(ms, process) # {} BY <1>4, <2>2, SaidNone
  <2> QED BY <2>1, <2>3
<1> QED BY <1>2, <1>3, <1>4 DEF AsMany, ns

\* For any transaction: neighbours that change places and a message read twice
\* add no finding (iso_checks.py:244, spdh_checks.py:105).
LEMMA PairsInAnyOrder == TypeOK => PairsOrderFree
<1> SUFFICES ASSUME TypeOK, NEW t \in ToSet(Transactions)
             PROVE  /\ \A ms \in Swapped(t.messages) : Pairs!Problems(ms) = Pairs!Problems(t.messages)
                    /\ \A m \in ToSet(t.messages) :
                           Pairs!Problems(Append(t.messages, m)) \subseteq Pairs!Problems(t.messages)
  BY DEF PairsOrderFree
<1>1. AreMessages(t.messages) BY DEF AreMessages, TypeOK, IsTransaction
<1>2. ASSUME NEW ms \in Swapped(t.messages) PROVE Pairs!Problems(ms) = Pairs!Problems(t.messages)
  <2>1. AsMany(ms, t.messages) /\ AsMany(t.messages, ms) BY <1>1, SwappedIsAsMany
  <2>2. Pairs!Problems(ms) \subseteq Pairs!Problems(t.messages) BY <2>1, ProblemsSaid
  <2>3. Pairs!Problems(t.messages) \subseteq Pairs!Problems(ms) BY <2>1, ProblemsSaid
  <2> QED BY <2>2, <2>3
<1> QED BY <1>1, <1>2, AppendedIsAsMany, ProblemsSaid

-----------------------------------------------------------------------------
(* The row of a transaction *)

AreBlocks(bs) == bs \in Seq(ToSet(bs)) /\ \A b \in ToSet(bs) : IsBlock(b)

\* The earliest of some times, if one of them is known.
Earliest(time, times) ==
    IF time = NoTime THEN times \subseteq {NoTime} ELSE time \in times /\ \A x \in times : x = NoTime \/ time <= x

Times(bs, k) == {bs[i].time : i \in 1..k}
Asked(bs, k) == {i \in 1..k : bs[i].request}
TimesAsked(bs, k) == {bs[i].time : i \in Asked(bs, k)}

OfNetwork(b) == b.process = "OPN" /\ ToSet(b.mtis) \intersect NetworkMtis # {}

\* Where a phase may begin.
Begins(b) == b.process \in {"OPN", "PTMS"} /\ b.flow # "other"
FlowAt(bs, i) == [phase |-> <<bs[i].process, bs[i].flow>>, time |-> bs[i].time, index |-> i]

\* What the row says after k blocks.
TimesBy(t, bs, k) == Earliest(t.first, Times(bs, k)) /\ Earliest(t.requested, TimesAsked(bs, k))
BanksBy(t, bs, k) ==
    /\ t.processes = {<<bs[i].process, bs[i].bank>> : i \in 1..k}
    /\ t.acquirers = UNION {bs[i].acquirers : i \in 1..k}
    /\ t.codes = UNION {bs[i].codes : i \in {j \in 1..k : OfNetwork(bs[j])}}
MtisBy(t, bs, k) ==
    /\ t.mtis \in Seq(ToSet(t.mtis))
    /\ ToSet(t.mtis) = UNION {ToSet(bs[i].mtis) : i \in 1..k}
    /\ t.requestMtis \in Seq(ToSet(t.requestMtis))
    /\ ToSet(t.requestMtis) = UNION {ToSet(bs[i].mtis) : i \in Asked(bs, k)}
FlowsBy(t, bs, k) ==
    /\ \A f \in t.flows : \E i \in 1..k : Begins(bs[i]) /\ f = FlowAt(bs, i)
    /\ \A i \in 1..k : Begins(bs[i]) =>
           \E f \in t.flows : f.phase = FlowAt(bs, i).phase /\ (f = FlowAt(bs, i) \/ Before(f, FlowAt(bs, i)))
    /\ \A f, g \in t.flows : f.phase = g.phase => f = g

RowBy(t, bs, k) == TimesBy(t, bs, k) /\ BanksBy(t, bs, k) /\ MtisBy(t, bs, k) /\ FlowsBy(t, bs, k)

\* The earlier of two times (Transaction.add, 176-182).
LEMMA EarlierIs ==
    ASSUME NEW time, NEW times, times \subseteq Int, Earliest(time, times), NEW new \in Int
    PROVE  Earliest(Earlier(time, new), times \union {new})
<1>1. NoTime \in Int BY EntriesAssumption
<1>2. time # NoTime => time \in Int BY DEF Earliest
<1> QED BY <1>1, <1>2 DEF Earliest, Earlier

\* One place more.
LEMMA OneMore ==
    ASSUME NEW k \in Nat
    PROVE  1..(k + 1) = 1..k \union {k + 1}
OBVIOUS

\* The times of blocks are numbers.
LEMMA TimesAreInt ==
    ASSUME NEW bs, AreBlocks(bs), NEW k \in Nat, k + 1 \in DOMAIN bs
    PROVE  \A i \in 1..(k + 1) : bs[i].time \in Int
<1>1. DOMAIN bs = 1..Len(bs) /\ Len(bs) \in Nat BY DEF AreBlocks
<1>2. \A i \in 1..(k + 1) : i \in DOMAIN bs BY <1>1
<1> QED BY <1>2 DEF AreBlocks, IsBlock, ToSet

\* Requests among one block more.
LEMMA AskedMore ==
    ASSUME NEW bs, NEW k \in Nat
    PROVE  Asked(bs, k + 1) = IF bs[k + 1].request THEN Asked(bs, k) \union {k + 1} ELSE Asked(bs, k)
BY OneMore DEF Asked

\* A block more: its times ...
LEMMA TimesStep ==
    ASSUME NEW bs, AreBlocks(bs), NEW k \in Nat, k + 1 \in DOMAIN bs, NEW t, TimesBy(t, bs, k)
    PROVE  TimesBy(Added(t, [block |-> bs[k + 1], index |-> k + 1]), bs, k + 1)
<1> DEFINE b == bs[k + 1]
           after == Added(t, [block |-> b, index |-> k + 1])
<1>1. \A i \in 1..(k + 1) : bs[i].time \in Int BY TimesAreInt
<1>2. Times(bs, k) \subseteq Int /\ TimesAsked(bs, k) \subseteq Int BY <1>1 DEF Times, TimesAsked, Asked
<1>3. Times(bs, k + 1) = Times(bs, k) \union {b.time} BY OneMore DEF Times
<1>4. TimesAsked(bs, k + 1) =
          IF b.request THEN TimesAsked(bs, k) \union {b.time} ELSE TimesAsked(bs, k)
  BY AskedMore DEF TimesAsked
<1>5. /\ after.first = Earlier(t.first, b.time)
      /\ after.requested = IF b.request THEN Earlier(t.requested, b.time) ELSE t.requested
  BY DEF Added
<1>6. b.time \in Int BY <1>1
<1> HIDE DEF after, b
<1>7. Earliest(after.first, Times(bs, k + 1)) BY <1>2, <1>3, <1>5, <1>6, EarlierIs DEF TimesBy
<1>8. Earliest(after.requested, TimesAsked(bs, k + 1)) BY <1>2, <1>4, <1>5, <1>6, EarlierIs DEF TimesBy
<1> QED BY <1>7, <1>8 DEF TimesBy, after, b

\* ... whose list it is in ...
LEMMA BanksStep ==
    ASSUME NEW bs, NEW k \in Nat, NEW t, BanksBy(t, bs, k)
    PROVE  BanksBy(Added(t, [block |-> bs[k + 1], index |-> k + 1]), bs, k + 1)
<1> DEFINE b == bs[k + 1]
           after == Added(t, [block |-> b, index |-> k + 1])
<1>1. /\ after.processes = t.processes \union {<<b.process, b.bank>>}
      /\ after.acquirers = t.acquirers \union b.acquirers
      /\ after.codes = IF OfNetwork(b) THEN t.codes \union b.codes ELSE t.codes
  BY DEF Added, OfNetwork
<1>2. {<<bs[i].process, bs[i].bank>> : i \in 1..(k + 1)}
          = {<<bs[i].process, bs[i].bank>> : i \in 1..k} \union {<<b.process, b.bank>>}
  BY OneMore
<1>3. UNION {bs[i].acquirers : i \in 1..(k + 1)} = (UNION {bs[i].acquirers : i \in 1..k}) \union b.acquirers
  BY OneMore
<1>4. UNION {bs[i].codes : i \in {j \in 1..(k + 1) : OfNetwork(bs[j])}} =
          IF OfNetwork(b) THEN (UNION {bs[i].codes : i \in {j \in 1..k : OfNetwork(bs[j])}}) \union b.codes
          ELSE UNION {bs[i].codes : i \in {j \in 1..k : OfNetwork(bs[j])}}
  BY OneMore
<1> HIDE DEF after, b
<1> QED BY <1>1, <1>2, <1>3, <1>4 DEF BanksBy, after, b

\* The members of one list after another.
LEMMA Concatenated ==
    ASSUME NEW s, s \in Seq(ToSet(s)), NEW t, t \in Seq(ToSet(t))
    PROVE  s \o t \in Seq(ToSet(s \o t)) /\ ToSet(s \o t) = ToSet(s) \union ToSet(t)
<1> DEFINE S == ToSet(s)
           T == ToSet(t)
<1> HIDE DEF S, T
<1>0. s \in Seq(S) /\ t \in Seq(T) BY DEF S, T
<1>1. s \o t \in Seq(S \union T)
  <2>1. s \in Seq(S \union T) /\ t \in Seq(S \union T) BY <1>0
  <2> QED BY <2>1
<1>2. /\ DOMAIN s = 1..Len(s) /\ DOMAIN t = 1..Len(t) /\ DOMAIN (s \o t) = 1..(Len(s) + Len(t))
      /\ Len(s) \in Nat /\ Len(t) \in Nat
      /\ \A i \in 1..Len(s) : (s \o t)[i] = s[i]
      /\ \A i \in 1..Len(t) : (s \o t)[i + Len(s)] = t[i]
  BY <1>0
<1>3. ASSUME NEW i \in 1..(Len(s) + Len(t)) PROVE (s \o t)[i] \in S \union T BY <1>1, <1>2
<1>4. ASSUME NEW x \in S PROVE x \in ToSet(s \o t)
  <2>1. PICK i \in DOMAIN s : x = s[i] BY DEF ToSet, S
  <2>2. i \in 1..(Len(s) + Len(t)) /\ (s \o t)[i] = x BY <1>2, <2>1
  <2> QED BY <1>2, <2>2 DEF ToSet
<1>5. ASSUME NEW x \in T PROVE x \in ToSet(s \o t)
  <2>1. PICK i \in DOMAIN t : x = t[i] BY DEF ToSet, T
  <2>2. i + Len(s) \in 1..(Len(s) + Len(t)) /\ (s \o t)[i + Len(s)] = x BY <1>2, <2>1
  <2> QED BY <1>2, <2>2 DEF ToSet
<1>6. ToSet(s \o t) \subseteq S \union T BY <1>2, <1>3 DEF ToSet
<1>7. ToSet(s \o t) = S \union T BY <1>4, <1>5, <1>6
<1> QED BY <1>1, <1>7 DEF S, T

\* ... its MTIs ...
LEMMA MtisStep ==
    ASSUME NEW bs, AreBlocks(bs), NEW k \in Nat, k + 1 \in DOMAIN bs, NEW t, MtisBy(t, bs, k)
    PROVE  MtisBy(Added(t, [block |-> bs[k + 1], index |-> k + 1]), bs, k + 1)
<1> DEFINE b == bs[k + 1]
           after == Added(t, [block |-> b, index |-> k + 1])
           All(n) == UNION {ToSet(bs[i].mtis) : i \in 1..n}
           OfAsked(n) == UNION {ToSet(bs[i].mtis) : i \in Asked(bs, n)}
<1>1. b.mtis \in Seq(ToSet(b.mtis)) BY DEF AreBlocks, IsBlock, ToSet
<1>2. All(k + 1) = All(k) \union ToSet(b.mtis) BY OneMore
<1>3. OfAsked(k + 1) = IF b.request THEN OfAsked(k) \union ToSet(b.mtis) ELSE OfAsked(k)
  BY AskedMore
<1>4. /\ after.mtis = t.mtis \o b.mtis
      /\ after.requestMtis = IF b.request THEN t.requestMtis \o b.mtis ELSE t.requestMtis
  BY DEF Added
<1>5. /\ t.mtis \in Seq(ToSet(t.mtis)) /\ ToSet(t.mtis) = All(k)
      /\ t.requestMtis \in Seq(ToSet(t.requestMtis)) /\ ToSet(t.requestMtis) = OfAsked(k)
  BY DEF MtisBy
<1> HIDE DEF after, b, All, OfAsked
<1>6. ASSUME NEW mtis, mtis \in Seq(ToSet(mtis))
      PROVE  mtis \o b.mtis \in Seq(ToSet(mtis \o b.mtis)) /\ ToSet(mtis \o b.mtis) = ToSet(mtis) \union ToSet(b.mtis)
  BY <1>1, <1>6, Concatenated, Zenon
<1>7. after.mtis \in Seq(ToSet(after.mtis)) /\ ToSet(after.mtis) = All(k + 1)
  <2>1. /\ t.mtis \o b.mtis \in Seq(ToSet(t.mtis \o b.mtis))
        /\ ToSet(t.mtis \o b.mtis) = ToSet(t.mtis) \union ToSet(b.mtis)
    BY <1>5, <1>6
  <2> QED BY <1>2, <1>4, <1>5, <2>1
<1>8. after.requestMtis \in Seq(ToSet(after.requestMtis)) /\ ToSet(after.requestMtis) = OfAsked(k + 1)
  <2>1. /\ t.requestMtis \o b.mtis \in Seq(ToSet(t.requestMtis \o b.mtis))
        /\ ToSet(t.requestMtis \o b.mtis) = ToSet(t.requestMtis) \union ToSet(b.mtis)
    BY <1>5, <1>6
  <2>2. CASE b.request BY <1>3, <1>4, <1>5, <2>1, <2>2
  <2>3. CASE ~b.request BY <1>3, <1>4, <1>5, <2>3
  <2> QED BY <2>2, <2>3
<1> QED BY <1>7, <1>8 DEF MtisBy, after, b, All, OfAsked

-----------------------------------------------------------------------------
(* The order of positions *)

IsPosition(p) == p.time \in Int /\ p.index \in Nat

\* Positions (time, then place) are in an order ...
LEMMA BeforeIsOrder ==
    ASSUME NEW p, IsPosition(p), NEW q, IsPosition(q)
    PROVE  /\ ~Before(p, p)
           /\ p.index # q.index => Before(p, q) \/ Before(q, p)
           /\ Before(p, q) => ~Before(q, p)
BY EntriesAssumption DEF IsPosition, Before

\* ... a transitive one.
LEMMA BeforeIsTransitive ==
    ASSUME NEW p, IsPosition(p), NEW q, IsPosition(q), NEW r, IsPosition(r), Before(p, q), Before(q, r)
    PROVE  Before(p, r)
BY EntriesAssumption DEF IsPosition, Before

\* ... and the phases it begins (194-196).
LEMMA FlowsStep ==
    ASSUME NEW bs, AreBlocks(bs), NEW k \in Nat, k + 1 \in DOMAIN bs, NEW t, FlowsBy(t, bs, k)
    PROVE  FlowsBy(Added(t, [block |-> bs[k + 1], index |-> k + 1]), bs, k + 1)
<1> DEFINE b == bs[k + 1]
           after == Added(t, [block |-> b, index |-> k + 1])
           flow == FlowAt(bs, k + 1)
<1>1. \A i \in 1..(k + 1) : bs[i].time \in Int BY TimesAreInt
<1>2. \A i \in 1..(k + 1) : IsPosition(FlowAt(bs, i)) /\ FlowAt(bs, i).index = i
  BY <1>1 DEF IsPosition, FlowAt
<1>3. after.flows = IF Begins(b) THEN PhaseFound(t.flows, flow) ELSE t.flows
  BY DEF Added, Begins, FlowAt
<1>4. 1..(k + 1) = 1..k \union {k + 1} BY OneMore
<1>5. k + 1 \in 1..(k + 1) /\ k + 1 \notin 1..k OBVIOUS
<1>6. \A f \in t.flows : IsPosition(f) /\ f # flow /\ f.index # k + 1 BY <1>2, <1>4, <1>5 DEF FlowsBy
<1> HIDE DEF after, b, flow
<1>7. CASE ~Begins(b)
  <2>1. after.flows = t.flows BY <1>3, <1>7
  <2> QED BY <1>4, <1>7, <2>1 DEF FlowsBy, after, b
<1>8. CASE Begins(b) /\ \E f \in t.flows : f.phase = flow.phase /\ ~Before(flow, f)
  <2>1. after.flows = t.flows BY <1>3, <1>8 DEF PhaseFound
  <2>2. PICK f \in t.flows : f.phase = flow.phase /\ ~Before(flow, f) BY <1>8
  <2>3. Before(f, flow) BY <1>2, <1>5, <1>6, <2>2, BeforeIsOrder DEF flow
  <2> QED BY <1>4, <2>1, <2>2, <2>3 DEF FlowsBy, after, b, flow
<1>9. CASE Begins(b) /\ \A f \in t.flows : f.phase = flow.phase => Before(flow, f)
  <2>1. after.flows = {f \in t.flows : f.phase # flow.phase} \union {flow} BY <1>3, <1>9 DEF PhaseFound
  <2>2. \A f \in after.flows : \E i \in 1..(k + 1) : Begins(bs[i]) /\ f = FlowAt(bs, i)
    BY <1>4, <1>9, <2>1 DEF FlowsBy, flow, b
  <2>3. \A f, g \in after.flows : f.phase = g.phase => f = g BY <2>1 DEF FlowsBy
  <2>4. ASSUME NEW i \in 1..(k + 1), Begins(bs[i])
        PROVE  \E f \in after.flows : f.phase = FlowAt(bs, i).phase /\ (f = FlowAt(bs, i) \/ Before(f, FlowAt(bs, i)))
    <3>1. CASE i = k + 1 BY <2>1, <3>1 DEF flow
    <3>2. CASE i \in 1..k
      <4>1. PICK f \in t.flows : f.phase = FlowAt(bs, i).phase /\ (f = FlowAt(bs, i) \/ Before(f, FlowAt(bs, i)))
        BY <2>4, <3>2 DEF FlowsBy
      <4>2. CASE f.phase # flow.phase BY <2>1, <4>1, <4>2
      <4>3. CASE f.phase = flow.phase
        <5>1. Before(flow, f) BY <1>9, <4>3
        <5>2. IsPosition(flow) /\ IsPosition(f) /\ IsPosition(FlowAt(bs, i)) BY <1>2, <1>5, <1>6 DEF flow
        <5>3. Before(flow, FlowAt(bs, i)) BY <4>1, <5>1, <5>2, BeforeIsTransitive
        <5> QED BY <2>1, <4>1, <4>3, <5>3
      <4> QED BY <4>2, <4>3
    <3> QED BY <1>4, <3>1, <3>2
  <2> QED BY <2>2, <2>3, <2>4 DEF FlowsBy, after, b
<1> QED BY <1>7, <1>8, <1>9
Reads(bs) == [i \in DOMAIN bs |-> [block |-> bs[i], index |-> i]]

\* For blocks of any number: the row is what the fold over them collected.
LEMMA RowIs ==
    ASSUME NEW bs, AreBlocks(bs)
    PROVE  RowBy(RowOf(bs), bs, Len(bs))
<1> DEFINE reads == Reads(bs)
<1>1. Len(bs) \in Nat /\ DOMAIN bs = 1..Len(bs) BY DEF AreBlocks
<1>2. reads \in Seq(ToSet(reads)) /\ Len(reads) = Len(bs)
  <2>1. reads \in [1..Len(bs) -> ToSet(reads)] BY <1>1 DEF Reads, ToSet
  <2> HIDE DEF reads
  <2> QED BY <1>1, <2>1
<1>3. \A i \in 1..Len(bs) : reads[i] = [block |-> bs[i], index |-> i] BY <1>1 DEF Reads
<1>4. RowOf(bs) = FoldLeft(Added, NoBlocksYet, reads) BY DEF RowOf, Reads
<1> HIDE DEF reads
<1>5. FoldLeft(Added, NoBlocksYet, reads) = RowFold!FoldLeft(Added, NoBlocksYet, reads)
  BY DEF FoldLeft, RowFold!FoldLeft, MapThenFoldSet, RowFold!MapThenFoldSet, Max, RowFold!Max
<1>6. PICK g : RowFold!IsSteps(g, reads) /\ FoldLeft(Added, NoBlocksYet, reads) = g[Len(reads)]
  BY <1>2, <1>5, RowFold!FoldSteps
<1> DEFINE T == {k \in Nat : k <= Len(bs) => RowBy(g[k], bs, k)}
<1>7. 0 \in T
  <2>1. g[0] = NoBlocksYet BY <1>6 DEF RowFold!IsSteps
  <2>2. 1..0 = {} /\ Asked(bs, 0) = {} BY DEF Asked
  <2>3. TimesBy(NoBlocksYet, bs, 0)
    <3>1. Times(bs, 0) = {} /\ TimesAsked(bs, 0) = {} BY <2>2 DEF Times, TimesAsked
    <3> QED BY <3>1 DEF TimesBy, Earliest, NoBlocksYet
  <2>4. BanksBy(NoBlocksYet, bs, 0) BY <2>2 DEF BanksBy, NoBlocksYet
  <2>5. MtisBy(NoBlocksYet, bs, 0)
    <3>1. ToSet(<<>>) = {} /\ <<>> \in Seq({}) BY DEF ToSet
    <3> QED BY <2>2, <3>1 DEF MtisBy, NoBlocksYet
  <2>6. FlowsBy(NoBlocksYet, bs, 0) BY <2>2 DEF FlowsBy, NoBlocksYet
  <2> QED BY <2>1, <2>3, <2>4, <2>5, <2>6 DEF RowBy
<1>8. ASSUME NEW k \in T PROVE k + 1 \in T
  <2> SUFFICES ASSUME k + 1 <= Len(bs) PROVE RowBy(g[k + 1], bs, k + 1) OBVIOUS
  <2>1. k \in Nat /\ k \in 0..(Len(reads) - 1) /\ k + 1 \in DOMAIN bs /\ RowBy(g[k], bs, k) BY <1>1, <1>2
  <2>2. g[k + 1] = Added(g[k], [block |-> bs[k + 1], index |-> k + 1])
    <3>1. g[k + 1] = Added(g[k], reads[k + 1]) BY <1>6, <2>1 DEF RowFold!IsSteps
    <3>2. reads[k + 1] = [block |-> bs[k + 1], index |-> k + 1] BY <1>1, <1>3, <2>1
    <3> QED BY <3>1, <3>2
  <2> HIDE DEF T
  <2>3. TimesBy(g[k + 1], bs, k + 1) BY <2>1, <2>2, TimesStep DEF RowBy
  <2>4. BanksBy(g[k + 1], bs, k + 1) BY <2>1, <2>2, BanksStep DEF RowBy
  <2>5. MtisBy(g[k + 1], bs, k + 1) BY <2>1, <2>2, MtisStep DEF RowBy
  <2>6. FlowsBy(g[k + 1], bs, k + 1) BY <2>1, <2>2, FlowsStep DEF RowBy
  <2> QED BY <2>3, <2>4, <2>5, <2>6 DEF RowBy
<1>9. RowBy(g[Len(bs)], bs, Len(bs))
  <2> HIDE DEF T
  <2>1. T \subseteq Nat BY DEF T
  <2>2. T = Nat BY <1>7, <1>8, <2>1, SharedFold!SetInduction
  <2> QED BY <1>1, <2>2 DEF T
<1> QED BY <1>2, <1>4, <1>6, <1>9

-----------------------------------------------------------------------------
(* The row of the same blocks in another order *)

\* There is one earliest time.
LEMMA SameEarliest ==
    ASSUME NEW times, times \subseteq Int, NEW a, Earliest(a, times), NEW b, Earliest(b, times)
    PROVE  a = b
<1>1. CASE a = NoTime \/ b = NoTime BY <1>1 DEF Earliest
<1>2. CASE a # NoTime /\ b # NoTime
  <2>1. a \in Int /\ b \in Int /\ a <= b /\ b <= a BY <1>2 DEF Earliest
  <2> QED BY <2>1
<1> QED BY <1>1, <1>2

\* A sequence has finitely many values.
LEMMA FiniteValues ==
    ASSUME NEW s, s \in Seq(ToSet(s))
    PROVE  IsFiniteSet(ToSet(s))
<1>1. PICK n \in Nat : DOMAIN s = 1..n /\ s \in [1..n -> ToSet(s)] OBVIOUS
<1>2. s \in Surjection(1..n, ToSet(s)) BY <1>1 DEF Surjection, ToSet
<1>3. IsFiniteSet(1..n) BY <1>1, FS_Interval
<1> QED BY <1>2, <1>3, FS_Surjection

\* The first MTI of some kind is the only one of that kind the requests have.
LEMMA FirstIs ==
    ASSUME NEW t, t.requestMtis \in Seq(ToSet(t.requestMtis)), t.mtis \in Seq(ToSet(t.mtis)),
           NEW mtis, NEW mti, mtis \intersect ToSet(t.requestMtis) = {mti}
    PROVE  Having(t, mtis) # {} /\ FirstOf(t, mtis) = mti
<1> DEFINE r == t.requestMtis
           m == t.mtis
           candidates == r \o m
           places == {i \in DOMAIN candidates : candidates[i] \in mtis}
<1>1. r \in Seq(ToSet(r)) /\ m \in Seq(ToSet(m)) /\ mti \in mtis /\ mti \in ToSet(r)
      /\ \A x \in ToSet(r) : x \in mtis => x = mti
  OBVIOUS
<1>2. Having(t, mtis) = places /\ FirstOf(t, mtis) = candidates[Min(places)] BY DEF Having, FirstOf, InOrder
<1> HIDE DEF r, m
<1>3. /\ DOMAIN r = 1..Len(r) /\ Len(r) \in Nat /\ Len(m) \in Nat
      /\ DOMAIN candidates = 1..(Len(r) + Len(m))
      /\ \A i \in 1..Len(r) : candidates[i] = r[i]
  BY <1>1
<1> HIDE DEF candidates
<1>4. PICK i \in 1..Len(r) : r[i] = mti BY <1>1, <1>3 DEF ToSet
<1>5. i \in places BY <1>1, <1>3, <1>4
<1>6. places \subseteq Nat BY <1>3
<1>7. Min(places) \in places /\ Min(places) <= i BY <1>5, <1>6, MinIs
<1>8. Min(places) \in 1..Len(r) BY <1>3, <1>6, <1>7
<1>9. candidates[Min(places)] = r[Min(places)] /\ r[Min(places)] \in ToSet(r) BY <1>3, <1>8 DEF ToSet
<1>10. candidates[Min(places)] = mti BY <1>1, <1>7, <1>9
<1> QED BY <1>2, <1>5, <1>10

\* A row has no MTI of a kind that neither its requests nor its blocks have.
LEMMA HavingNone ==
    ASSUME NEW t, t.requestMtis \in Seq(ToSet(t.requestMtis)), t.mtis \in Seq(ToSet(t.mtis)),
           NEW mtis, mtis \intersect (ToSet(t.requestMtis) \union ToSet(t.mtis)) = {}
    PROVE  Having(t, mtis) = {}
<1> DEFINE r == t.requestMtis
           m == t.mtis
<1>1. r \in Seq(ToSet(r)) /\ m \in Seq(ToSet(m)) /\ mtis \intersect (ToSet(r) \union ToSet(m)) = {} OBVIOUS
<1>2. InOrder(t) = r \o m BY DEF InOrder
<1> HIDE DEF r, m
<1>3. \A i \in DOMAIN (r \o m) : (r \o m)[i] \in ToSet(r) \union ToSet(m)
  <2> SUFFICES ASSUME NEW i \in DOMAIN (r \o m) PROVE (r \o m)[i] \in ToSet(r) \union ToSet(m) OBVIOUS
  <2>1. i \in 1..(Len(r) + Len(m)) /\ Len(r) \in Nat /\ Len(m) \in Nat BY <1>1
  <2>2. CASE i <= Len(r) BY <1>1, <2>1, <2>2 DEF ToSet
  <2>3. CASE i > Len(r)
    <3>1. i - Len(r) \in 1..Len(m) /\ (r \o m)[i] = m[i - Len(r)] BY <1>1, <2>1, <2>3
    <3> QED BY <1>1, <3>1 DEF ToSet
  <2> QED BY <2>1, <2>2, <2>3
<1> QED BY <1>1, <1>2, <1>3 DEF Having

\* What the blocks say, whatever their order.
LEMMA RowSays ==
    ASSUME NEW bs, AreBlocks(bs)
    PROVE  LET t == RowOf(bs)
               blocks == ToSet(bs)
               asked == {b \in blocks : b.request}
           IN  /\ Earliest(t.first, {b.time : b \in blocks}) /\ Earliest(t.requested, {b.time : b \in asked})
               /\ t.processes = {<<b.process, b.bank>> : b \in blocks}
               /\ t.acquirers = UNION {b.acquirers : b \in blocks}
               /\ t.codes = UNION {b.codes : b \in {c \in blocks : OfNetwork(c)}}
               /\ ToSet(t.mtis) = UNION {ToSet(b.mtis) : b \in blocks}
               /\ ToSet(t.requestMtis) = UNION {ToSet(b.mtis) : b \in asked}
               /\ t.mtis \in Seq(ToSet(t.mtis)) /\ t.requestMtis \in Seq(ToSet(t.requestMtis))
<1> DEFINE t == RowOf(bs)
           blocks == ToSet(bs)
           asked == {b \in blocks : b.request}
           n == Len(bs)
<1>1. TimesBy(t, bs, n) /\ BanksBy(t, bs, n) /\ MtisBy(t, bs, n) BY RowIs DEF RowBy
<1>2. \A b : b \in blocks <=> \E i \in 1..n : b = bs[i] BY DEF AreBlocks, ToSet
<1>3. \A b : b \in asked <=> \E i \in Asked(bs, n) : b = bs[i] BY <1>2 DEF Asked
<1> HIDE DEF t, blocks, asked, n
<1>4. Times(bs, n) = {b.time : b \in blocks} BY <1>2 DEF Times
<1>5. TimesAsked(bs, n) = {b.time : b \in asked} BY <1>3 DEF TimesAsked
<1>6. {<<bs[i].process, bs[i].bank>> : i \in 1..n} = {<<b.process, b.bank>> : b \in blocks} BY <1>2
<1>7. {bs[i].acquirers : i \in 1..n} = {b.acquirers : b \in blocks} BY <1>2
<1>8. {bs[i].codes : i \in {j \in 1..n : OfNetwork(bs[j])}} = {b.codes : b \in {c \in blocks : OfNetwork(c)}} BY <1>2
<1>9. {ToSet(bs[i].mtis) : i \in 1..n} = {ToSet(b.mtis) : b \in blocks} BY <1>2
<1>10. {ToSet(bs[i].mtis) : i \in Asked(bs, n)} = {ToSet(b.mtis) : b \in asked} BY <1>3
<1>11. TimesBy(t, bs, n) => Earliest(t.first, {b.time : b \in blocks}) /\ Earliest(t.requested, {b.time : b \in asked})
  BY <1>4, <1>5 DEF TimesBy
<1>12. BanksBy(t, bs, n) => /\ t.processes = {<<b.process, b.bank>> : b \in blocks}
                            /\ t.acquirers = UNION {b.acquirers : b \in blocks}
                            /\ t.codes = UNION {b.codes : b \in {c \in blocks : OfNetwork(c)}}
  BY <1>6, <1>7, <1>8 DEF BanksBy
<1>13. MtisBy(t, bs, n) => /\ ToSet(t.mtis) = UNION {ToSet(b.mtis) : b \in blocks}
                           /\ ToSet(t.requestMtis) = UNION {ToSet(b.mtis) : b \in asked}
                           /\ t.mtis \in Seq(ToSet(t.mtis)) /\ t.requestMtis \in Seq(ToSet(t.requestMtis))
  BY <1>9, <1>10 DEF MtisBy
<1>14. /\ Earliest(t.first, {b.time : b \in blocks}) /\ Earliest(t.requested, {b.time : b \in asked})
       /\ t.processes = {<<b.process, b.bank>> : b \in blocks}
       /\ t.acquirers = UNION {b.acquirers : b \in blocks}
       /\ t.codes = UNION {b.codes : b \in {c \in blocks : OfNetwork(c)}}
       /\ ToSet(t.mtis) = UNION {ToSet(b.mtis) : b \in blocks}
       /\ ToSet(t.requestMtis) = UNION {ToSet(b.mtis) : b \in asked}
       /\ t.mtis \in Seq(ToSet(t.mtis)) /\ t.requestMtis \in Seq(ToSet(t.requestMtis))
  BY <1>1, <1>11, <1>12, <1>13
<1> QED BY <1>14 DEF t, blocks, asked
-----------------------------------------------------------------------------
(* Phases, by the times they began *)

SoonerThan(flows, f) == {g \in flows : Before(g, f)}

\* Flows at different places, each at its rank.
LEMMA Ranks ==
    ASSUME NEW flows, IsFiniteSet(flows), \A f \in flows : IsPosition(f),
           \A f, g \in flows : f # g => f.index # g.index
    PROVE  /\ Cardinality(flows) \in Nat
           /\ \A k \in 1..Cardinality(flows) : \E f \in flows : Cardinality(SoonerThan(flows, f)) = k - 1
           /\ \A f, g \in flows : Cardinality(SoonerThan(flows, f)) = Cardinality(SoonerThan(flows, g)) => f = g
<1> DEFINE n == Cardinality(flows)
           rank == [f \in flows |-> Cardinality(SoonerThan(flows, f))]
<1>1. n \in Nat BY FS_CardinalityType
<1>2. ASSUME NEW f \in flows
      PROVE  IsFiniteSet(SoonerThan(flows, f)) /\ rank[f] \in 0..(n - 1)
  <2>1. SoonerThan(flows, f) \in SUBSET flows BY DEF SoonerThan
  <2>2. f \notin SoonerThan(flows, f) BY BeforeIsOrder DEF SoonerThan
  <2>3. SoonerThan(flows, f) # flows BY <2>2
  <2>4. /\ IsFiniteSet(SoonerThan(flows, f)) /\ Cardinality(SoonerThan(flows, f)) <= n
        /\ Cardinality(SoonerThan(flows, f)) # n
    BY <2>1, <2>3, FS_Subset
  <2>5. Cardinality(SoonerThan(flows, f)) \in Nat BY <2>4, FS_CardinalityType
  <2> QED BY <1>1, <2>4, <2>5
<1>3. ASSUME NEW f \in flows, NEW g \in flows, Before(f, g) PROVE rank[f] < rank[g]
  <2>1. SoonerThan(flows, f) \subseteq SoonerThan(flows, g) BY <1>3, BeforeIsTransitive DEF SoonerThan
  <2>2. f \in SoonerThan(flows, g) /\ f \notin SoonerThan(flows, f) BY <1>3, BeforeIsOrder DEF SoonerThan
  <2>3. SoonerThan(flows, f) # SoonerThan(flows, g) BY <2>2
  <2>4. /\ Cardinality(SoonerThan(flows, f)) <= Cardinality(SoonerThan(flows, g))
        /\ Cardinality(SoonerThan(flows, f)) # Cardinality(SoonerThan(flows, g))
    BY <1>2, <2>1, <2>3, FS_Subset
  <2> QED BY <1>2, <2>4
<1>4. \A f, g \in flows : rank[f] = rank[g] => f = g
  <2> SUFFICES ASSUME NEW f \in flows, NEW g \in flows, f # g PROVE rank[f] # rank[g] OBVIOUS
  <2>1. Before(f, g) \/ Before(g, f) BY BeforeIsOrder
  <2>2. rank[f] \in Int /\ rank[g] \in Int BY <1>2
  <2> HIDE DEF rank
  <2> QED BY <1>3, <2>1, <2>2
<1>5. rank \in Surjection(flows, 0..(n - 1))
  <2>1. rank \in Injection(flows, 0..(n - 1))
    <3>1. rank \in [flows -> 0..(n - 1)] BY <1>2
    <3> HIDE DEF rank
    <3>2. DOMAIN rank = flows BY <3>1
    <3> QED BY <1>4, <3>1, <3>2 DEF Injection, IsInjective
  <2>2. IsFiniteSet(0..(n - 1)) /\ Cardinality(0..(n - 1)) = n
    <3>1. Cardinality(0..(n - 1)) = IF 0 > n - 1 THEN 0 ELSE (n - 1) - 0 + 1 BY <1>1, FS_Interval
    <3> QED BY <1>1, <3>1, FS_Interval
  <2> HIDE DEF rank
  <2> QED BY <2>1, <2>2, FS_Injection
<1>6. ASSUME NEW k \in 1..n PROVE \E f \in flows : rank[f] = k - 1
  <2>1. k - 1 \in 0..(n - 1) BY <1>1
  <2> HIDE DEF rank
  <2> QED BY <1>5, <2>1 DEF Surjection
<1> QED BY <1>1, <1>4, <1>6

\* Each flow of one row is in the other, with its phase and time.
Alike(flows, others) == \A f \in flows : \E g \in others : g.phase = f.phase /\ g.time = f.time

\* Flows at the same times have the same ranks ...
LEMMA AlikeRanks ==
    ASSUME NEW F, NEW G, IsFiniteSet(F), Alike(F, G), Alike(G, F),
           \A f \in F \union G : IsPosition(f),
           \A f, g \in F : f.time = g.time => f = g,
           \A f, g \in G : f.time = g.time => f = g
    PROVE  /\ IsFiniteSet(G) /\ Cardinality(G) = Cardinality(F)
           /\ \A f \in F, g \in G : f.time = g.time =>
                  Cardinality(SoonerThan(G, g)) = Cardinality(SoonerThan(F, f))
<1> DEFINE to == [f \in F |-> CHOOSE g \in G : g.time = f.time]
<1>1. \A f \in F : to[f] \in G /\ to[f].time = f.time BY DEF Alike
<1>2. to \in [F -> G] BY <1>1
<1> HIDE DEF to
<1>3. ASSUME NEW A \in SUBSET F, NEW B \in SUBSET G, \A f \in F, g \in G : f.time = g.time => (f \in A <=> g \in B)
      PROVE  IsFiniteSet(B) /\ Cardinality(B) = Cardinality(A)
  <2> DEFINE m == [f \in A |-> to[f]]
  <2>1. m \in [A -> B] BY <1>1, <1>3
  <2>2. \A f, g \in A : m[f] = m[g] => f = g BY <1>1
  <2>3. \A g \in B : \E f \in A : m[f] = g
    <3> SUFFICES ASSUME NEW g \in B PROVE \E f \in A : m[f] = g OBVIOUS
    <3>1. PICK f \in F : f.time = g.time BY DEF Alike
    <3>2. f \in A BY <1>3, <3>1
    <3>3. to[f] = g BY <1>1, <3>1
    <3> QED BY <3>2, <3>3
  <2> HIDE DEF m
  <2>4. DOMAIN m = A BY <2>1
  <2>5. m \in Bijection(A, B) BY <2>1, <2>2, <2>3, <2>4 DEF Bijection, Injection, Surjection, IsInjective
  <2>6. ExistsBijection(A, B) BY <2>5 DEF ExistsBijection
  <2>7. IsFiniteSet(A) BY FS_Subset
  <2> QED BY <2>6, <2>7, FS_Bijection
<1>4. IsFiniteSet(G) /\ Cardinality(G) = Cardinality(F) BY <1>3
<1>5. ASSUME NEW f \in F, NEW g \in G, f.time = g.time
      PROVE  Cardinality(SoonerThan(G, g)) = Cardinality(SoonerThan(F, f))
  <2> DEFINE A == SoonerThan(F, f)
             B == SoonerThan(G, g)
  <2>1. A \in SUBSET F /\ B \in SUBSET G BY DEF SoonerThan
  <2>2. ASSUME NEW h \in F, NEW i \in G, h.time = i.time PROVE h \in A <=> i \in B
    <3>1. h.time = f.time => h = f /\ i = g BY <1>5, <2>2
    <3>2. Before(h, f) <=> Before(i, g)
      <4>1. CASE h.time = f.time
        <5>1. ~Before(f, f) /\ ~Before(g, g) BY BeforeIsOrder
        <5> QED BY <3>1, <4>1, <5>1
      <4>2. CASE h.time # f.time BY <1>5, <2>2, <4>2 DEF Before
      <4> QED BY <4>1, <4>2
    <3> QED BY <3>2 DEF SoonerThan
  <2> HIDE DEF A, B
  <2>3. Cardinality(B) = Cardinality(A) BY <1>3, <2>1, <2>2
  <2> QED BY <2>3 DEF A, B
<1> QED BY <1>4, <1>5

\* ... and so the phases follow one another in the same order.
LEMMA AlikePhases ==
    ASSUME NEW t, NEW u, IsFiniteSet(t.flows), Alike(t.flows, u.flows), Alike(u.flows, t.flows),
           \A f \in t.flows \union u.flows : IsPosition(f),
           \A f, g \in t.flows : (f.time = g.time \/ f.index = g.index) => f = g,
           \A f, g \in u.flows : (f.time = g.time \/ f.index = g.index) => f = g
    PROVE  Phases(t) = Phases(u)
<1> DEFINE F == t.flows
           G == u.flows
           At(flows, k) == CHOOSE f \in flows : Cardinality({g \in flows : Before(g, f)}) = k - 1
<1>1. /\ IsFiniteSet(G) /\ Cardinality(G) = Cardinality(F)
      /\ \A f \in F, g \in G : f.time = g.time => Cardinality(SoonerThan(G, g)) = Cardinality(SoonerThan(F, f))
  BY AlikeRanks
<1>2. /\ \A k \in 1..Cardinality(F) : \E f \in F : Cardinality(SoonerThan(F, f)) = k - 1
      /\ \A f, g \in F : Cardinality(SoonerThan(F, f)) = Cardinality(SoonerThan(F, g)) => f = g
  BY Ranks
<1>3. \A f, g \in G : Cardinality(SoonerThan(G, f)) = Cardinality(SoonerThan(G, g)) => f = g
  BY <1>1, Ranks
<1>4. ASSUME NEW k \in 1..Cardinality(F) PROVE At(F, k).phase = At(G, k).phase
  <2>1. PICK f \in F : Cardinality(SoonerThan(F, f)) = k - 1 BY <1>2
  <2>2. PICK g \in G : g.phase = f.phase /\ g.time = f.time BY DEF Alike
  <2>3. Cardinality(SoonerThan(G, g)) = k - 1 BY <1>1, <2>1, <2>2
  <2>4. At(F, k) = f
    <3>1. \A h \in F : Cardinality(SoonerThan(F, h)) = k - 1 => h = f BY <1>2, <2>1
    <3> QED BY <2>1, <3>1 DEF SoonerThan
  <2>5. At(G, k) = g
    <3>1. \A h \in G : Cardinality(SoonerThan(G, h)) = k - 1 => h = g BY <1>3, <2>3
    <3> QED BY <2>3, <3>1 DEF SoonerThan
  <2> QED BY <2>2, <2>4, <2>5
<1>5. /\ Phases(t) = [k \in 1..Cardinality(F) |-> At(F, k).phase]
      /\ Phases(u) = [k \in 1..Cardinality(G) |-> At(G, k).phase]
  BY DEF Phases
<1> HIDE DEF At, F, G
<1> QED BY <1>1, <1>4, <1>5

\* The flows of a row are positions, each of its own place.
LEMMA FlowsOfRow ==
    ASSUME NEW bs, AreBlocks(bs)
    PROVE  LET flows == RowOf(bs).flows IN
           /\ IsFiniteSet(flows) /\ \A f \in flows : IsPosition(f)
           /\ \A f, g \in flows : f.index = g.index => f = g
           /\ Timed(bs) => \A f, g \in flows : f.time = g.time => f = g
<1> DEFINE flows == RowOf(bs).flows
           n == Len(bs)
<1>1. n \in Nat /\ DOMAIN bs = 1..n BY DEF AreBlocks
<1>2. \A f \in flows : \E i \in 1..n : f = FlowAt(bs, i) BY RowIs DEF RowBy, FlowsBy
<1>3. \A i \in 1..n : bs[i].time \in Int BY <1>1 DEF AreBlocks, IsBlock, ToSet
<1>4. \A i \in 1..n : IsPosition(FlowAt(bs, i)) /\ FlowAt(bs, i).index = i /\ FlowAt(bs, i).time = bs[i].time
  BY <1>1, <1>3 DEF FlowAt, IsPosition
<1> HIDE DEF flows, n
<1>5. \A f, g \in flows : f.index = g.index => f = g BY <1>2, <1>4
<1>6. Timed(bs) => \A f, g \in flows : f.time = g.time => f = g BY <1>1, <1>2, <1>4 DEF Timed
<1>7. IsFiniteSet(flows)
  <2> DEFINE m == [f \in flows |-> f.index]
  <2>1. m \in [flows -> 1..n] BY <1>2, <1>4
  <2>2. \A f, g \in flows : m[f] = m[g] => f = g BY <1>5
  <2> HIDE DEF m
  <2>3. m \in Injection(flows, 1..n)
    <3>1. DOMAIN m = flows BY <2>1
    <3> QED BY <2>1, <2>2, <3>1 DEF Injection, IsInjective
  <2>4. IsFiniteSet(1..n) BY <1>1, FS_Interval
  <2> QED BY <2>3, <2>4, FS_Injection
<1>8. \A f \in flows : IsPosition(f) BY <1>2, <1>4
<1> QED BY <1>5, <1>6, <1>7, <1>8 DEF flows

\* Blocks that are all timed begin a phase at the earliest of their times.
LEMMA FlowElsewhere ==
    ASSUME NEW bs, AreBlocks(bs), Timed(bs), NEW cs, AreBlocks(cs), Timed(cs), ToSet(bs) = ToSet(cs)
    PROVE  Alike(RowOf(bs).flows, RowOf(cs).flows)
<1> DEFINE F == RowOf(bs).flows
           G == RowOf(cs).flows
<1>1. FlowsBy(RowOf(bs), bs, Len(bs)) /\ FlowsBy(RowOf(cs), cs, Len(cs)) BY RowIs DEF RowBy
<1>2. DOMAIN bs = 1..Len(bs) /\ DOMAIN cs = 1..Len(cs) BY DEF AreBlocks
<1>3. /\ \A i \in 1..Len(bs) : \E j \in 1..Len(cs) : cs[j] = bs[i]
      /\ \A j \in 1..Len(cs) : \E i \in 1..Len(bs) : bs[i] = cs[j]
  <2>1. \A i \in 1..Len(bs) : bs[i] \in ToSet(cs) BY <1>2 DEF ToSet
  <2>2. \A j \in 1..Len(cs) : cs[j] \in ToSet(bs) BY <1>2 DEF ToSet
  <2> QED BY <1>2, <2>1, <2>2 DEF ToSet
<1>4. /\ \A i \in 1..Len(bs) : bs[i].time \in Int /\ bs[i].time # NoTime
      /\ \A j \in 1..Len(cs) : cs[j].time \in Int /\ cs[j].time # NoTime
  BY <1>2 DEF AreBlocks, IsBlock, ToSet, Timed
<1> SUFFICES ASSUME NEW f \in F PROVE \E g \in G : g.phase = f.phase /\ g.time = f.time
  BY DEF Alike
<1>5. PICK i \in 1..Len(bs) : Begins(bs[i]) /\ f = FlowAt(bs, i) BY <1>1 DEF FlowsBy
<1>6. PICK j \in 1..Len(cs) : cs[j] = bs[i] BY <1>3
<1>7. PICK g \in G : g.phase = FlowAt(cs, j).phase /\ (g = FlowAt(cs, j) \/ Before(g, FlowAt(cs, j)))
  BY <1>1, <1>5, <1>6 DEF FlowsBy
<1>8. PICK k \in 1..Len(cs) : Begins(cs[k]) /\ g = FlowAt(cs, k) BY <1>1 DEF FlowsBy
<1>9. PICK l \in 1..Len(bs) : bs[l] = cs[k] BY <1>3
<1>10. PICK h \in F : h.phase = FlowAt(bs, l).phase /\ (h = FlowAt(bs, l) \/ Before(h, FlowAt(bs, l)))
  BY <1>1, <1>8, <1>9 DEF FlowsBy
<1>11. g.phase = f.phase BY <1>5, <1>6, <1>7 DEF FlowAt
<1>12. h.phase = g.phase BY <1>8, <1>9, <1>10 DEF FlowAt
<1>13. h = f BY <1>1, <1>11, <1>12 DEF FlowsBy
<1>14. f.time = bs[i].time /\ g.time = cs[k].time /\ FlowAt(cs, j).time = bs[i].time /\ FlowAt(bs, l).time = cs[k].time
  BY <1>5, <1>6, <1>8, <1>9 DEF FlowAt
<1>15. g.time <= f.time BY <1>4, <1>7, <1>14 DEF Before
<1>16. f.time <= g.time BY <1>4, <1>10, <1>13, <1>14 DEF Before
<1>17. g.time = f.time BY <1>4, <1>14, <1>15, <1>16
<1> QED BY <1>11, <1>17

\* For any blocks in any order scan_transactions_for_list shows the same row
\* (select_transaction_operation, select_transaction_type,
\* transaction_matches_bank).
LEMMA RowsInAnyOrder == TypeOK => RowOrderFree
<1> SUFFICES ASSUME TypeOK, NEW cs \in Reordered(Blocks)
             PROVE  LET row == RowOf(Blocks)
                        other == RowOf(cs)
                    IN  /\ other.first = row.first /\ other.requested = row.requested
                        /\ \A bank \in BankNames : MatchesBank(other, bank) <=> MatchesBank(row, bank)
                        /\ OneOperation(row) => Operation(other) = Operation(row)
                        /\ Timed(Blocks) => Phases(other) = Phases(row)
  BY DEF RowOrderFree
<1> DEFINE bs == Blocks
           row == RowOf(bs)
           other == RowOf(cs)
<1>1. AreBlocks(bs) BY DEF AreBlocks, TypeOK, Blocks, ToSet
<1> HIDE DEF bs
<1>2. bs \in Seq(ToSet(bs)) /\ cs \in Reordered(bs) BY <1>1 DEF AreBlocks, bs
<1>3. cs \in Seq(ToSet(bs)) /\ ToSet(cs) = ToSet(bs) BY <1>2, ReorderedIs
<1>4. AreBlocks(cs) BY <1>1, <1>3 DEF AreBlocks
<1> DEFINE blocks == ToSet(bs)
           asked == {b \in blocks : b.request}
<1>5. /\ Earliest(row.first, {b.time : b \in blocks}) /\ Earliest(row.requested, {b.time : b \in asked})
      /\ Earliest(other.first, {b.time : b \in blocks}) /\ Earliest(other.requested, {b.time : b \in asked})
  BY <1>1, <1>3, <1>4, RowSays
<1>6. /\ other.processes = row.processes /\ other.acquirers = row.acquirers /\ other.codes = row.codes
      /\ ToSet(other.mtis) = ToSet(row.mtis) /\ ToSet(other.requestMtis) = ToSet(row.requestMtis)
      /\ row.mtis \in Seq(ToSet(row.mtis)) /\ row.requestMtis \in Seq(ToSet(row.requestMtis))
      /\ other.mtis \in Seq(ToSet(other.mtis)) /\ other.requestMtis \in Seq(ToSet(other.requestMtis))
  BY <1>1, <1>3, <1>4, RowSays
<1>7. {b.time : b \in blocks} \subseteq Int /\ {b.time : b \in asked} \subseteq Int
  BY <1>1 DEF AreBlocks, IsBlock
<1>8. Timed(bs) => Timed(cs)
  <2>1. PICK p \in Bijection(DOMAIN bs, DOMAIN bs) : \A i \in DOMAIN bs : cs[i] = bs[p[i]] BY <1>2, ReorderedIs
  <2>2. \A i, j \in DOMAIN bs : p[i] \in DOMAIN bs /\ (p[i] = p[j] => i = j)
    BY DEF Bijection, Injection, IsInjective
  <2>3. DOMAIN cs = DOMAIN bs BY <1>2, ReorderedIs
  <2> QED BY <2>1, <2>2, <2>3 DEF Timed
<1>9. Timed(bs) => Phases(other) = Phases(row)
  <2> SUFFICES ASSUME Timed(bs) PROVE Phases(row) = Phases(other) OBVIOUS
  <2>1. Alike(row.flows, other.flows) /\ Alike(other.flows, row.flows) BY <1>1, <1>3, <1>4, <1>8, FlowElsewhere
  <2>2. /\ IsFiniteSet(row.flows) /\ \A f \in row.flows \union other.flows : IsPosition(f)
        /\ \A f, g \in row.flows : (f.time = g.time \/ f.index = g.index) => f = g
        /\ \A f, g \in other.flows : (f.time = g.time \/ f.index = g.index) => f = g
    BY <1>1, <1>4, <1>8, FlowsOfRow
  <2> HIDE DEF row, other
  <2> QED BY <2>1, <2>2, AlikePhases
<1> HIDE DEF row, other
<1>10. other.first = row.first /\ other.requested = row.requested BY <1>5, <1>7, SameEarliest
<1>11. \A bank : MatchesBank(other, bank) <=> MatchesBank(row, bank) BY <1>6 DEF MatchesBank
<1>12. OneOperation(row) => Operation(other) = Operation(row)
  <2> SUFFICES ASSUME OneOperation(row) PROVE Operation(other) = Operation(row) OBVIOUS
  <2>1. ASSUME NEW mtis, RequestsOne(row, mtis)
        PROVE  Having(row, mtis) # {} /\ Having(other, mtis) # {} /\ FirstOf(other, mtis) = FirstOf(row, mtis)
    <3> DEFINE ones == mtis \intersect ToSet(row.requestMtis)
    <3>1. IsFiniteSet(ToSet(row.requestMtis)) BY <1>6, FiniteValues
    <3>2. IsFiniteSet(ones) /\ Cardinality(ones) = 1 BY <2>1, <3>1, FS_Subset DEF RequestsOne
    <3>3. PICK mti : ones = {mti} BY <3>2, FS_Singleton
    <3> QED BY <1>6, <3>3, FirstIs
  <2>2. CASE RequestsOne(row, TangoMtis) BY <1>6, <2>1, <2>2 DEF Operation
  <2>3. CASE ~RequestsOne(row, TangoMtis)
    <3>1. /\ TangoMtis \intersect (ToSet(row.requestMtis) \union ToSet(row.mtis)) = {}
          /\ RequestsOne(row, PreferredMtis)
      BY <2>3 DEF OneOperation
    <3>2. Having(row, TangoMtis) = {} /\ Having(other, TangoMtis) = {} BY <1>6, <3>1, HavingNone
    <3> QED BY <1>6, <2>1, <3>1, <3>2 DEF Operation
  <2> QED BY <2>2, <2>3
<1> QED BY <1>9, <1>10, <1>11, <1>12 DEF row, other, bs

(***************************************************************************)
(* OrderFree: for any log nothing that is found of transactions and        *)
(* messages, and nothing a row shows, depends on the order in which        *)
(* audits, blocks and messages are read.                                   *)
(***************************************************************************)
THEOREM OrderDoesNotMatter == Spec => []OrderFree
<1>1. TypeOK => OrderFree BY OriginalsInAnyOrder, PairsInAnyOrder, RowsInAnyOrder DEF OrderFree
<1> QED BY <1>1, LogIsTyped, PTL

-----------------------------------------------------------------------------
(* Values of a message *)

\* One field more.
LEMMA OneFieldMore ==
    ASSUME NEW s, s \in Seq(ToSet(s)), NEW x
    PROVE  /\ ToSet(Append(s, x)) = ToSet(s) \union {x}
           /\ Last(Append(s, x)) = x
           /\ Append(s, x) \in Seq(ToSet(s) \union {x})
<1> DEFINE t == Append(s, x)
<1>1. Len(s) \in Nat /\ DOMAIN s = 1..Len(s) OBVIOUS
<1>2. s \in Seq(ToSet(s) \union {x}) BY <1>1
<1>3. /\ t \in Seq(ToSet(s) \union {x}) /\ Len(t) = Len(s) + 1 /\ DOMAIN t = 1..(Len(s) + 1)
      /\ t[Len(s) + 1] = x /\ \A i \in 1..Len(s) : t[i] = s[i]
  BY <1>1, <1>2
<1> HIDE DEF t
<1>4. ToSet(t) = ToSet(s) \union {x}
  <2>1. ToSet(t) \subseteq ToSet(s) \union {x} BY <1>1, <1>3 DEF ToSet
  <2>2. ToSet(s) \subseteq ToSet(t) BY <1>1, <1>3 DEF ToSet
  <2>3. x \in ToSet(t)
    <3>1. Len(s) + 1 \in DOMAIN t BY <1>1, <1>3
    <3> QED BY <1>3, <3>1 DEF ToSet
  <2> QED BY <2>1, <2>2, <2>3
<1>5. Last(t) = x BY <1>3 DEF Last
<1> QED BY <1>3, <1>4, <1>5 DEF t

\* IsoRank and SpdhRank are small numbers.
RankNumbers == 0..99

\* Of some of them there is a greatest one, by the definition Max has.
LEMMA GreatestRank ==
    ASSUME NEW R, R \subseteq RankNumbers, R # {}
    PROVE  /\ Max(R) \in R
           /\ \A r \in R : r <= Max(R)
<1> DEFINE T == {n \in Nat : 99 - n \in R}
<1>1. PICK r \in R : TRUE OBVIOUS
<1>2. 99 - r \in Nat /\ 99 - (99 - r) = r BY DEF RankNumbers
<1>3. T \subseteq Nat /\ T # {} BY <1>2
<1>4. PICK n \in T : \A m \in T : n <= m BY <1>3, SharedFold!LeastNatural
<1>5. \A q \in R : q \in Int /\ 99 - q \in T BY DEF RankNumbers
<1>6. 99 - n \in R /\ \A q \in R : q <= 99 - n BY <1>4, <1>5
<1>7. \E x \in R : \A y \in R : x >= y BY <1>5, <1>6
<1> QED BY <1>5, <1>7 DEF Max

\* The value of a key is the one id said of it, if there is one.
LEMMA ValueIs ==
    ASSUME NEW C, IsFiniteSet(C), NEW key
    PROVE  LET ids == Said(C, key) IN
           ValueSaid(ValuesOf(C), key) = IF \E x : ids = {x} THEN CHOOSE id \in ids : TRUE ELSE 0
<1> DEFINE ids == Said(C, key)
           keys == {c.key : c \in C}
<1>1. IsFiniteSet(ids)
  <2> DEFINE D == {d \in C : d.key = key}
             E == {d \in C : d.key = key /\ d.rank = Max({c.rank : c \in D})}
             f == [c \in E |-> c.id]
  <2>1. IsFiniteSet(E) BY FS_Subset
  <2>2. ids = {c.id : c \in E} BY DEF Said
  <2> HIDE DEF E
  <2>3. f \in Surjection(E, ids) BY <2>2 DEF Surjection
  <2> QED BY <2>1, <2>3, FS_Surjection
<1>2. Cardinality(ids) = 1 <=> \E x : ids = {x} BY <1>1, FS_Singleton
<1>3. (\E x : ids = {x}) => key \in keys BY DEF Said
<1>4. DOMAIN ValuesOf(C) = {k \in keys : Cardinality(Said(C, k)) = 1} BY DEF ValuesOf
<1>5. key \in DOMAIN ValuesOf(C) <=> \E x : ids = {x} BY <1>2, <1>3, <1>4
<1>6. key \in DOMAIN ValuesOf(C) => ValuesOf(C)[key] = CHOOSE id \in ids : TRUE
  BY <1>4 DEF ValuesOf
<1> QED BY <1>5, <1>6 DEF ValueSaid

\* What is said of a key when a candidate is added.
LEMMA SaidOneMore ==
    ASSUME NEW C, \A c \in C : c.rank \in RankNumbers, NEW d, d.rank \in RankNumbers, NEW key
    PROVE  LET before == Said(C, key)
               after == Said(C \union {d}, key)
           IN  /\ d.key # key => after = before
               /\ \/ d.key # key
                  \/ \A c \in C : c.key = key => c.rank < d.rank
                  \/ (\A c \in C : c.key = key => c.rank <= d.rank) /\ before # {} /\ after = before \union {d.id}
                  \/ after = before
<1> DEFINE K == {c \in C : c.key = key}
           R == {c.rank : c \in K}
           L == {c \in C \union {d} : c.key = key}
           S == {c.rank : c \in L}
           before == Said(C, key)
           after == Said(C \union {d}, key)
           m == Max(R)
           n == Max(S)
<1>1. before = {c.id : c \in {b \in C : b.key = key /\ b.rank = m}} BY DEF Said
<1>2. after = {c.id : c \in {b \in C \union {d} : b.key = key /\ b.rank = n}} BY DEF Said
<1>3. ASSUME d.key # key PROVE after = before
  <2>1. L = K BY <1>3
  <2>2. n = m BY <2>1
  <2> HIDE DEF m, n, before, after
  <2>3. {b \in C \union {d} : b.key = key /\ b.rank = n} = {b \in C : b.key = key /\ b.rank = m} BY <1>3, <2>2
  <2> QED BY <1>1, <1>2, <2>3
<1>4. ASSUME d.key = key, NEW e \in C, e.key = key, ~(e.rank < d.rank)
      PROVE  \/ (\A c \in C : c.key = key => c.rank <= d.rank) /\ before # {} /\ after = before \union {d.id}
             \/ after = before
  <2>1. e \in K /\ R \subseteq RankNumbers /\ R # {} BY <1>4
  <2>2. d \in L /\ S \subseteq RankNumbers /\ S # {} /\ S = R \union {d.rank} BY <1>4
  <2>3. m \in R /\ \A r \in R : r <= m BY <2>1, GreatestRank
  <2>4. n \in S /\ \A r \in S : r <= n BY <2>2, GreatestRank
  <2>5. \A c \in C : c.key = key => c.rank \in R OBVIOUS
  <2> HIDE DEF m, n, before, after, R, S, L, K
  <2>6. n = m /\ d.rank <= m
    <3>1. m \in Int /\ n \in Int /\ d.rank \in Int /\ e.rank \in Int BY <2>1, <2>2, <2>3, <2>4 DEF RankNumbers
    <3>2. m <= n /\ e.rank <= m /\ d.rank <= e.rank BY <1>4, <2>2, <2>3, <2>4, <2>5, <3>1
    <3>3. n = d.rank \/ n <= m BY <2>2, <2>3, <2>4
    <3> QED BY <3>1, <3>2, <3>3
  <2>7. CASE d.rank = m
    <3>1. {b \in C \union {d} : b.key = key /\ b.rank = n} = {b \in C : b.key = key /\ b.rank = m} \union {d}
      BY <1>4, <2>6, <2>7
    <3>2. after = before \union {d.id} BY <1>1, <1>2, <3>1
    <3>3. \A c \in C : c.key = key => c.rank <= d.rank BY <2>3, <2>5, <2>7
    <3>4. before # {}
      <4>1. PICK c \in K : c.rank = m BY <2>3 DEF R
      <4>2. c \in C /\ c.key = key BY DEF K
      <4> QED BY <1>1, <4>1, <4>2
    <3> QED BY <3>2, <3>3, <3>4
  <2>8. CASE d.rank # m
    <3>1. {b \in C \union {d} : b.key = key /\ b.rank = n} = {b \in C : b.key = key /\ b.rank = m}
      BY <2>6, <2>8
    <3> QED BY <1>1, <1>2, <3>1
  <2> QED BY <2>7, <2>8
<1> QED BY <1>3, <1>4

\* So a value changes only to a better one, or is given up for another.
LEMMA ValueChanges ==
    ASSUME NEW C, IsFiniteSet(C), \A c \in C : c.rank \in RankNumbers, NEW d, d.rank \in RankNumbers, NEW key,
           ValueSaid(ValuesOf(C \union {d}), key) # ValueSaid(ValuesOf(C), key)
    PROVE  /\ d.key = key
           /\ \A c \in C : c.key = key =>
                  \/ c.rank < d.rank
                  \/ ValueSaid(ValuesOf(C \union {d}), key) = 0 /\ c.rank <= d.rank
                     /\ ValueSaid(ValuesOf(C), key) # d.id
<1> DEFINE before == Said(C, key)
           after == Said(C \union {d}, key)
           old == ValueSaid(ValuesOf(C), key)
           new == ValueSaid(ValuesOf(C \union {d}), key)
<1>1. IsFiniteSet(C \union {d}) BY FS_Union, FS_Singleton
<1>2. old = IF \E x : before = {x} THEN CHOOSE id \in before : TRUE ELSE 0 BY ValueIs
<1>3. new = IF \E x : after = {x} THEN CHOOSE id \in after : TRUE ELSE 0 BY <1>1, ValueIs
<1>4. /\ d.key # key => after = before
      /\ \/ d.key # key
         \/ \A c \in C : c.key = key => c.rank < d.rank
         \/ (\A c \in C : c.key = key => c.rank <= d.rank) /\ before # {} /\ after = before \union {d.id}
         \/ after = before
  BY SaidOneMore
<1>5. old # new OBVIOUS
<1> HIDE DEF before, after, old, new
<1>6. after # before BY <1>2, <1>3, <1>5
<1>7. CASE (\A c \in C : c.key = key => c.rank <= d.rank) /\ before # {} /\ after = before \union {d.id}
  <2>1. d.id \notin before BY <1>6, <1>7
  <2>2. ~\E x : after = {x} BY <1>7, <2>1
  <2>3. new = 0 BY <1>3, <2>2
  <2>4. \E x : before = {x} BY <1>2, <1>5, <2>3
  <2>5. old \in before BY <1>2, <2>4
  <2> QED BY <1>4, <1>6, <1>7, <2>1, <2>3, <2>5 DEF old, new
<1> QED BY <1>4, <1>6, <1>7

\* What a field says of its key, and how well it is written.
IsoCandidate(f) == [key |-> f.key, rank |-> IsoRank(f), id |-> f.text.id]
SpdhCandidate(f) == [key |-> f.key, rank |-> SpdhRank(f), id |-> f.text.id]

\* Values of ISO fields ...
LEMMA IsoChanges ==
    ASSUME NEW s, s \in Seq(ToSet(s)), NEW x
    PROVE  ChangedByBetter(s, Append(s, x), IsoValues, Usable, IsoRank)
<1> DEFINE t == Append(s, x)
           used(fs) == {g \in ToSet(fs) : Usable(g)}
           C == {IsoCandidate(f) : f \in used(s)}
           D == {IsoCandidate(f) : f \in used(t)}
<1>1. ToSet(t) = ToSet(s) \union {x} /\ Last(t) = x BY OneFieldMore
<1>2. IsoValues(s) = ValuesOf(C) /\ IsoValues(t) = ValuesOf(D)
  BY DEF IsoValues, IsoCandidate, ToSet
<1>3. IsFiniteSet(C)
  <2>1. IsFiniteSet(ToSet(s)) BY FiniteValues
  <2>2. IsFiniteSet(used(s)) BY <2>1, FS_Subset
  <2> DEFINE f == [g \in used(s) |-> IsoCandidate(g)]
  <2>3. f \in Surjection(used(s), C) BY DEF Surjection
  <2> HIDE DEF f, used
  <2> QED BY <2>2, <2>3, FS_Surjection
<1>4. \A f : IsoCandidate(f).rank \in RankNumbers BY DEF IsoCandidate, IsoRank, RankNumbers
<1>5. \A f : IsoCandidate(f).key = f.key /\ IsoCandidate(f).rank = IsoRank(f) /\ IsoCandidate(f).id = f.text.id
  BY DEF IsoCandidate
<1> HIDE DEF t
<1> SUFFICES ASSUME NEW key, ValueSaid(ValuesOf(D), key) # ValueSaid(ValuesOf(C), key)
             PROVE  /\ Usable(x) /\ x.key = key
                    /\ \A g \in ToSet(s) : Usable(g) /\ g.key = key =>
                           \/ IsoRank(g) < IsoRank(x)
                           \/ /\ ValueSaid(ValuesOf(D), key) = 0 /\ IsoRank(g) <= IsoRank(x)
                              /\ ValueSaid(ValuesOf(C), key) # x.text.id
  BY <1>1, <1>2 DEF ChangedByBetter, t
<1>6. Usable(x)
  <2> SUFFICES ASSUME ~Usable(x) PROVE FALSE OBVIOUS
  <2>1. used(t) = used(s) BY <1>1
  <2> QED BY <2>1
<1>7. D = C \union {IsoCandidate(x)} BY <1>1, <1>6
<1> HIDE DEF D, used
<1>8. \A c \in C : c.rank \in RankNumbers BY <1>4
<1>9. /\ IsoCandidate(x).key = key
      /\ \A c \in C : c.key = key =>
             \/ c.rank < IsoCandidate(x).rank
             \/ ValueSaid(ValuesOf(D), key) = 0 /\ c.rank <= IsoCandidate(x).rank
                /\ ValueSaid(ValuesOf(C), key) # IsoCandidate(x).id
  <2> HIDE DEF C
  <2> QED BY <1>3, <1>4, <1>7, <1>8, ValueChanges
<1>10. \A g \in ToSet(s) : Usable(g) => IsoCandidate(g) \in C BY DEF used
<1> HIDE DEF C
<1> QED BY <1>5, <1>6, <1>9, <1>10

\* ... and of SPDH fields.
LEMMA SpdhChanges ==
    ASSUME NEW s, s \in Seq(ToSet(s)), NEW x
    PROVE  ChangedByBetter(s, Append(s, x), SpdhValues, SpdhUsable, SpdhRank)
<1> DEFINE t == Append(s, x)
           used(fs) == {g \in ToSet(fs) : SpdhUsable(g)}
           C == {SpdhCandidate(f) : f \in used(s)}
           D == {SpdhCandidate(f) : f \in used(t)}
<1>1. ToSet(t) = ToSet(s) \union {x} /\ Last(t) = x BY OneFieldMore
<1>2. SpdhValues(s) = ValuesOf(C) /\ SpdhValues(t) = ValuesOf(D)
  BY DEF SpdhValues, SpdhCandidate, ToSet
<1>3. IsFiniteSet(C)
  <2>1. IsFiniteSet(ToSet(s)) BY FiniteValues
  <2>2. IsFiniteSet(used(s)) BY <2>1, FS_Subset
  <2> DEFINE f == [g \in used(s) |-> SpdhCandidate(g)]
  <2>3. f \in Surjection(used(s), C) BY DEF Surjection
  <2> HIDE DEF f, used
  <2> QED BY <2>2, <2>3, FS_Surjection
<1>4. \A f : SpdhCandidate(f).rank \in RankNumbers BY DEF SpdhCandidate, SpdhRank, RankNumbers
<1>5. \A f : SpdhCandidate(f).key = f.key /\ SpdhCandidate(f).rank = SpdhRank(f) /\ SpdhCandidate(f).id = f.text.id
  BY DEF SpdhCandidate
<1> HIDE DEF t
<1> SUFFICES ASSUME NEW key, ValueSaid(ValuesOf(D), key) # ValueSaid(ValuesOf(C), key)
             PROVE  /\ SpdhUsable(x) /\ x.key = key
                    /\ \A g \in ToSet(s) : SpdhUsable(g) /\ g.key = key =>
                           \/ SpdhRank(g) < SpdhRank(x)
                           \/ /\ ValueSaid(ValuesOf(D), key) = 0 /\ SpdhRank(g) <= SpdhRank(x)
                              /\ ValueSaid(ValuesOf(C), key) # x.text.id
  BY <1>1, <1>2 DEF ChangedByBetter, t
<1>6. SpdhUsable(x)
  <2> SUFFICES ASSUME ~SpdhUsable(x) PROVE FALSE OBVIOUS
  <2>1. used(t) = used(s) BY <1>1
  <2> QED BY <2>1
<1>7. D = C \union {SpdhCandidate(x)} BY <1>1, <1>6
<1> HIDE DEF D, used
<1>8. \A c \in C : c.rank \in RankNumbers BY <1>4
<1>9. /\ SpdhCandidate(x).key = key
      /\ \A c \in C : c.key = key =>
             \/ c.rank < SpdhCandidate(x).rank
             \/ ValueSaid(ValuesOf(D), key) = 0 /\ c.rank <= SpdhCandidate(x).rank
                /\ ValueSaid(ValuesOf(C), key) # SpdhCandidate(x).id
  <2> HIDE DEF C
  <2> QED BY <1>3, <1>4, <1>7, <1>8, ValueChanges
<1>10. \A g \in ToSet(s) : SpdhUsable(g) => SpdhCandidate(g) \in C BY DEF used
<1> HIDE DEF C
<1> QED BY <1>5, <1>6, <1>9, <1>10

-----------------------------------------------------------------------------
\* What is invalid of fields.
Invalid(f) == WrongLength(f) \/ WrongDigits(f) \/ WrongDate(f)

\* invalid_fields has the numbers of invalid fields ...
LEMMA InvalidIs ==
    ASSUME NEW s
    PROVE  InvalidFields(s) = {f.number : f \in {g \in ToSet(s) : Invalid(g)}}
BY DEF InvalidFields, Invalid, ToSet

\* ... which are shown, or of data elements that are checked twice.
LEMMA InvalidShown ==
    ASSUME NEW f, Invalid(f)
    PROVE  f.number \in CheckedNumbers \/ f.text.kind = "shown"
<1>1. WrongLength(f) => f.text.kind = "shown" BY DEF WrongLength
<1>2. WrongDigits(f) => f.number \in CheckedNumbers BY DEF WrongDigits
<1>3. WrongDate(f) => f.number \in CheckedNumbers BY FieldsAssumption DEF WrongDate
<1> QED BY <1>1, <1>2, <1>3 DEF Invalid

\* The fields of a message as the log grows.
LEMMA FieldsGrow ==
    ASSUME TypeOK, Grow, NEW kind, family = kind
    PROVE  /\ EntriesIn(kind) \in Seq(ToSet(EntriesIn(kind)))
           /\ \E x : EntriesIn(kind)' = Append(EntriesIn(kind), x)
<1> DEFINE s == EntriesIn(kind)
           n == Len(log)
<1>1. PICK t \in EntriesOf[family] : log' = Append(log, WithUid(t, n + 1)) /\ family' = family BY DEF Grow
<1>2. DOMAIN log = 1..n /\ n \in Nat BY DEF TypeOK
<1>3. log \in Seq(ToSet(log) \union {WithUid(t, n + 1)}) BY DEF TypeOK
<1>4. /\ DOMAIN log' = 1..(n + 1) /\ log'[n + 1] = WithUid(t, n + 1) /\ \A i \in 1..n : log'[i] = log[i]
  BY <1>1, <1>2, <1>3
<1>5. s = [i \in 1..n |-> log[i].is] BY <1>2 DEF EntriesIn
<1>6. s \in Seq(ToSet(s))
  <2>1. s \in [1..n -> ToSet(s)] BY <1>5 DEF ToSet
  <2> HIDE DEF s
  <2> QED BY <1>2, <2>1
<1>7. EntriesIn(kind)' = [i \in 1..(n + 1) |-> log'[i].is] BY <1>1, <1>4 DEF EntriesIn
<1> DEFINE x == WithUid(t, n + 1).is
           after == Append(s, x)
<1>8. DOMAIN s = 1..n /\ Len(s) = n /\ \A i \in 1..n : s[i] = log[i].is
  <2>1. DOMAIN s = 1..n BY <1>5
  <2> QED BY <1>2, <1>5, <1>6, <2>1
<1>9. EntriesIn(kind)' = after
  <2>1. s \in Seq(ToSet(s) \union {x}) BY <1>6, OneFieldMore
  <2> HIDE DEF s, x, n
  <2>4. n \in Nat BY <1>2 DEF n
  <2>5. Len(s) = n BY <1>8
  <2>2. /\ DOMAIN after = 1..(n + 1) /\ after[n + 1] = x /\ \A i \in 1..n : after[i] = s[i]
        /\ after = [i \in 1..(n + 1) |-> after[i]]
    <3>1. after \in Seq(ToSet(s) \union {x}) /\ Len(after) = n + 1 BY <2>1, <2>4, <2>5
    <3>2. DOMAIN after = 1..(n + 1) BY <2>1, <2>4, <2>5
    <3>3. after[n + 1] = x /\ \A i \in 1..n : after[i] = s[i] BY <2>1, <2>4, <2>5
    <3> HIDE DEF after
    <3>4. after \in [1..(n + 1) -> ToSet(s) \union {x}] BY <3>1, <2>4
    <3>5. after = [i \in 1..(n + 1) |-> after[i]] BY <3>4
    <3> QED BY <3>2, <3>3, <3>5
  <2> HIDE DEF after
  <2>3. \A i \in 1..(n + 1) : log'[i].is = after[i]
    <3>1. \A i \in 1..(n + 1) : i = n + 1 \/ i \in 1..n BY <1>2
    <3> QED BY <1>4, <1>8, <2>2, <3>1 DEF x, n
  <2> QED BY <1>7, <2>2, <2>3 DEF n
<1> QED BY <1>6, <1>9

(***************************************************************************)
(* ValuesSettle: for any fields of a message, in any order, a value that   *)
(* parse_iso_message or parse_spdh_message has is replaced only by one     *)
(* that is written in a better way, and given up only for another written  *)
(* as well; a field once invalid stays so.                                 *)
(***************************************************************************)
THEOREM ValuesAreSettled == Spec => ValuesSettle
<1> DEFINE Settles ==
        family = "fields" =>
            LET before == EntriesIn("fields")
                after == EntriesIn("fields")'
            IN  /\ ChangedByBetter(before, after, IsoValues, Usable, IsoRank)
                /\ ChangedByBetter(before, after, SpdhValues, SpdhUsable, SpdhRank)
                /\ InvalidFields(before) \subseteq InvalidFields(after)
                /\ InvalidFields(after) \subseteq
                       InvalidFields(before) \union CheckedNumbers \union {f.number : f \in {g \in ToSet(after) : g.text.kind = "shown"}}
<1>1. ASSUME TypeOK, Grow PROVE Settles
  <2> SUFFICES ASSUME family = "fields" PROVE Settles OBVIOUS
  <2> DEFINE s == EntriesIn("fields")
  <2>1. s \in Seq(ToSet(s)) BY <1>1, FieldsGrow
  <2>2. PICK x : EntriesIn("fields")' = Append(s, x) BY <1>1, FieldsGrow
  <2> DEFINE t == Append(s, x)
  <2> HIDE DEF s
  <2>3. ToSet(t) = ToSet(s) \union {x} BY <2>1, OneFieldMore
  <2>4. ChangedByBetter(s, t, IsoValues, Usable, IsoRank) BY <2>1, IsoChanges
  <2>5. ChangedByBetter(s, t, SpdhValues, SpdhUsable, SpdhRank) BY <2>1, SpdhChanges
  <2> HIDE DEF t
  <2>6. InvalidFields(s) \subseteq InvalidFields(t) BY <2>3, InvalidIs
  <2>7. InvalidFields(t) \subseteq
            InvalidFields(s) \union CheckedNumbers \union {f.number : f \in {g \in ToSet(t) : g.text.kind = "shown"}}
    BY <2>3, InvalidIs, InvalidShown
  <2> QED BY <2>2, <2>4, <2>5, <2>6, <2>7 DEF s, t
<1>2. TypeOK /\ Grow => Settles BY <1>1
<1> QED BY <1>2, LogIsTyped, PTL DEF Spec, ValuesSettle, Settles
-----------------------------------------------------------------------------
(* Names of source files *)

\* Two files of one key that are packed alike are one file.
LEMMA KeyAndPacking ==
    ASSUME NEW a, IsSourceFile(a), NEW b, IsSourceFile(b),
           SourceKey(a) = SourceKey(b), a.packed = b.packed
    PROVE  a = b
<1>1. CASE ~IsGzip(a) BY <1>1 DEF SourceKey, IsGzip
<1>2. CASE IsGzip(a)
  <2>1. [a EXCEPT !.packed = ""] = [b EXCEPT !.packed = ""] BY <1>2 DEF SourceKey, IsGzip
  <2>2. /\ a.family = b.family /\ a.code = b.code /\ a.parts = b.parts
        /\ a.dates = b.dates /\ a.alone = b.alone
    BY <2>1 DEF IsSourceFile
  <2>3. a = [family |-> a.family, code |-> a.code, parts |-> a.parts, dates |-> a.dates, alone |-> a.alone,
             packed |-> a.packed]
    BY DEF IsSourceFile
  <2>4. b = [family |-> b.family, code |-> b.code, parts |-> b.parts, dates |-> b.dates, alone |-> b.alone,
             packed |-> b.packed]
    BY DEF IsSourceFile
  <2> QED BY <2>2, <2>3, <2>4
<1> QED BY <1>1, <1>2

\* Of the files of one key unique_source_files keeps one, and the one that is
\* not compressed if there is such a one.
LEMMA OneOfAKey ==
    ASSUME NEW F, \A n \in F : IsSourceFile(n), NEW n \in F
    PROVE  /\ Cardinality({m \in UniqueSources(F) : SourceKey(m) = SourceKey(n)}) = 1
           /\ n \in UniqueSources(F) \/ n.packed # ""
<1> DEFINE U == UniqueSources(F)
           Same(m) == SourceKey(m) = SourceKey(n)
<1>1. \A m \in F : m \in U <=>
          ~\E o \in F : SourceKey(o) = SourceKey(m) /\ o # m
              /\ (~IsGzip(o) \/ (IsGzip(m) /\ o.packed = "gzip"))
  BY DEF UniqueSources
<1>2. U \subseteq F BY DEF UniqueSources
<1> HIDE DEF U
<1>3. \A a, b \in F : SourceKey(a) = SourceKey(b) /\ a # b => IsGzip(a) \/ IsGzip(b)
  BY DEF SourceKey
<1>4. \A a, b \in F : SourceKey(a) = SourceKey(b) /\ a.packed = b.packed => a = b
  BY KeyAndPacking
\* One is kept ...
<1>5. \E m \in U : Same(m)
  <2>1. ASSUME NEW m \in F, Same(m), ~IsGzip(m) PROVE m \in U
    <3>1. \A o \in F : SourceKey(o) = SourceKey(m) /\ o # m => IsGzip(o) BY <1>3, <2>1
    <3> QED BY <1>1, <2>1, <3>1
  <2>2. ASSUME NEW m \in F, Same(m), m.packed = "gzip", \A o \in F : Same(o) => IsGzip(o) PROVE m \in U
    <3>1. \A o \in F : SourceKey(o) = SourceKey(m) => IsGzip(o) /\ (o.packed = "gzip" => o = m)
      BY <1>4, <2>2
    <3> QED BY <1>1, <3>1
  <2>3. ASSUME \A o \in F : Same(o) => IsGzip(o) /\ o.packed # "gzip" PROVE n \in U
    <3>1. \A o \in F : SourceKey(o) = SourceKey(n) => IsGzip(o) /\ o.packed # "gzip" BY <2>3
    <3> QED BY <1>1, <3>1
  <2> QED BY <2>1, <2>2, <2>3
\* ... and no two are.
<1>6. \A a, b \in U : Same(a) /\ Same(b) => a = b
  <2> SUFFICES ASSUME NEW a \in U, NEW b \in U, Same(a), Same(b), a # b PROVE FALSE OBVIOUS
  <2>1. a \in F /\ b \in F /\ SourceKey(a) = SourceKey(b) BY <1>2
  <2>2. IsGzip(a) /\ IsGzip(b) BY <1>1, <2>1
  <2>3. a.packed # "gzip" /\ b.packed # "gzip" BY <1>1, <2>1, <2>2
  <2>4. a.packed = b.packed BY <2>2, <2>3 DEF IsGzip
  <2> QED BY <1>4, <2>1, <2>4
<1>7. n.packed = "" => n \in U
  <2>1. n.packed = "" => ~IsGzip(n) BY DEF IsGzip
  <2> QED BY <1>1, <1>3, <2>1
<1>8. PICK m \in U : Same(m) BY <1>5
<1>9. {u \in U : Same(u)} = {m} BY <1>6, <1>8
<1>10. Cardinality({u \in U : Same(u)}) = 1 BY <1>9, FS_Singleton
<1> QED BY <1>7, <1>10 DEF U

\* An audit is named for the day it is listed for.
LEMMA NamesItsDay ==
    ASSUME NEW n, IsSourceFile(n), AuditDate(n) # NoDay
    PROVE  Names(n, AuditDate(n))
<1>1. n.alone \subseteq Nat /\ n.alone \subseteq DOMAIN n.dates BY DEF IsSourceFile
<1>2. n.alone # {} BY DEF AuditDate
<1>3. Min(n.alone) \in DOMAIN n.dates BY <1>1, <1>2, MinIs
<1>4. AuditDate(n) = n.dates[Min(n.alone)] BY <1>2 DEF AuditDate
<1> QED BY <1>3, <1>4 DEF Names, ToSet

\* A process audit is listed for the banks with its code.
LEMMA ListedByCode ==
    ASSUME NEW n, n.family = "OPN", NEW bank
    PROVE  bank \in BanksForAudits({n}) <=>
               bank \in DOMAIN BankCodes /\ n.parts /\ CodeMatches(bank, n.code)
<1> DEFINE dotted == {m \in {n} : IsAudit(m) /\ m.parts}
<1>1. IsAudit(n) BY DEF IsAudit
<1>2. {m.family : m \in dotted} # {"PTMS"} BY DEF dotted
<1>3. BanksForAudits({n}) =
          {b \in DOMAIN BankCodes : \E m \in dotted : m.family = "OPN" /\ CodeMatches(b, m.code)}
  BY <1>2 DEF BanksForAudits
<1>4. \A m : m \in dotted <=> m = n /\ n.parts BY <1>1 DEF dotted
<1> HIDE DEF dotted
<1> QED BY <1>3, <1>4

\* Audits of a bank that are listed for a day are audits of that day and bank.
LEMMA ListedIsLocal ==
    ASSUME NEW names, \A n \in names : IsSourceFile(n), NEW bank, NEW day,
           NEW n \in NamesForBank(ListedAudits(names), bank), AuditDate(n) = day
    PROVE  MatchesPtms(n, day) \/ (Names(n, day) /\ n.family # "tango" /\ n.parts /\ CodeMatches(bank, n.code))
<1>1. n \in names /\ IsAudit(n) /\ day # NoDay BY DEF NamesForBank, ListedAudits
<1>2. Names(n, day) BY <1>1, NamesItsDay
<1>3. CASE n.family = "PTMS" BY <1>2, <1>3 DEF MatchesPtms
<1>4. CASE n.family = "OPN"
  <2>1. bank \in BanksForAudits({n}) BY <1>4 DEF NamesForBank
  <2> QED BY <1>2, <1>4, <2>1, ListedByCode
<1> QED BY <1>1, <1>3, <1>4 DEF IsAudit

\* What is loaded of the audits that are listed for a day.
LEMMA ListedIsLoaded ==
    ASSUME NEW names, \A n \in names : IsSourceFile(n), NEW bank, NEW day
    PROVE  AuditsAgree(names, bank, day)
<1> DEFINE chosen == {n \in NamesForBank(ListedAudits(names), bank) : AuditDate(n) = day}
           loaded == LocalAudits(chosen, day, bank)
           F == {m \in chosen : m.packed # "tgz"}
<1>1. loaded = UniqueSources(F)
  <2>1. \A n \in chosen : MatchesPtms(n, day) \/ (Names(n, day) /\ n.family # "tango" /\ n.parts /\ CodeMatches(bank, n.code))
    BY ListedIsLocal DEF chosen
  <2>2. F = {n \in chosen : n.packed # "tgz" /\
                (MatchesPtms(n, day) \/ (Names(n, day) /\ n.family # "tango" /\ n.parts /\ CodeMatches(bank, n.code)))}
    BY <2>1 DEF F
  <2> HIDE DEF chosen, F
  <2> QED BY <2>2 DEF LocalAudits, loaded
<1>2. \A n \in F : IsSourceFile(n) BY DEF NamesForBank, ListedAudits
<1> HIDE DEF F, loaded
<1>3. ASSUME NEW n \in F
      PROVE  /\ Cardinality({m \in loaded : SourceKey(m) = SourceKey(n)}) = 1
             /\ n \in loaded \/ n.packed # ""
  BY <1>1, <1>2, OneOfAKey
<1> QED BY <1>3 DEF F, loaded, AuditsAgree

\* A change of a file of today's list is reported.
LEMMA SignedIsReported ==
    ASSUME NEW names, \A n \in names : IsSourceFile(n), NEW bank \in DOMAIN BankCodes,
           NEW n \in SignedFiles(names, Today, bank)
    PROVE  Reports({n}, Today, bank)
<1>1. CASE LogDate(n) = Today BY <1>1 DEF Reports
<1>2. CASE n \in LocalAudits(names, Today, bank)
  <2>1. /\ n \in names
        /\ MatchesPtms(n, Today) \/ (Names(n, Today) /\ n.family # "tango" /\ n.parts /\ CodeMatches(bank, n.code))
    BY <1>2 DEF LocalAudits, UniqueSources
  <2>2. n.family \in {"tango", "OPN", "PTMS", "audit"} /\ (n.family = "audit" => ~CodeMatches(bank, n.code))
    BY <2>1 DEF IsSourceFile, CodeMatches
  <2>3. IsAudit(n) /\ Names(n, Today) /\ (MatchesPtms(n, Today) \/ CodeMatches(bank, n.code))
    BY <2>1, <2>2 DEF IsAudit, MatchesPtms
  <2> QED BY <2>3 DEF Reports
<1> QED BY <1>1, <1>2 DEF SignedFiles

\* A bank is offered for a file that says so, and its audits are listed.
LEMMA BankIsOffered ==
    ASSUME NEW names, NEW bank \in AvailableBanks(names)
    PROVE  \E n \in names : bank \in BanksForAudits({n}) /\ (AuditDate(n) # 0 => n \in ListedAudits(names))
<1>1. PICK n \in names : n.family = "OPN" /\ n.parts /\ CodeMatches(bank, n.code) BY DEF AvailableBanks
<1>2. bank \in DOMAIN BankCodes BY DEF AvailableBanks
<1>3. bank \in BanksForAudits({n}) BY <1>1, <1>2, ListedByCode
<1>4. AuditDate(n) # 0 => n \in ListedAudits(names)
  BY <1>1 DEF ListedAudits, IsAudit, NoDay
<1> QED BY <1>3, <1>4

\* All names of the log are names of source files.
NamesAreTyped == TypeOK /\ \A n \in ToSet(EntriesIn("names")) : IsSourceFile(n)

\* So they are when a name is added.
LEMMA NamesGrow ==
    ASSUME NamesAreTyped, [Grow]_vars PROVE NamesAreTyped'
<1>1. CASE UNCHANGED vars BY <1>1 DEF vars, NamesAreTyped, TypeOK, Transactions, Blocks, EntriesIn
<1>2. CASE Grow
  <2>1. TypeOK' BY <1>2, GrowType DEF NamesAreTyped
  <2>2. CASE family # "names"
    <3>1. EntriesIn("names")' = <<>> BY <1>2, <2>2 DEF EntriesIn, Grow
    <3>2. ToSet(<<>>) = {} BY DEF ToSet
    <3> QED BY <2>1, <3>1, <3>2 DEF NamesAreTyped
  <2>3. CASE family = "names"
    <3>1. PICK t \in EntriesOf["names"] : log' = Append(log, WithUid(t, Len(log) + 1)) BY <1>2, <2>3 DEF Grow
    <3>2. "is" \in DOMAIN t /\ IsSourceFile(t.is) BY <2>3, FieldsAssumption DEF NamesAreTyped, TypeOK
    <3> DEFINE u == WithUid(t, Len(log) + 1)
    <3>3. u.is = t.is BY <3>2 DEF WithUid
    <3> HIDE DEF u
    <3>4. family' = "names" BY <1>2, <2>3 DEF Grow
    <3>5. log \in Seq(ToSet(log) \union {u}) /\ Len(log) \in Nat /\ DOMAIN log = 1..Len(log) BY DEF NamesAreTyped, TypeOK
    <3>6. /\ DOMAIN log' = 1..(Len(log) + 1) /\ log'[Len(log) + 1] = u
          /\ \A i \in 1..Len(log) : log'[i] = log[i]
      BY <3>1, <3>5 DEF u
    <3>7. \A i \in DOMAIN log : IsSourceFile(log[i].is) BY <2>3 DEF NamesAreTyped, EntriesIn, ToSet
    <3>8. \A i \in DOMAIN log' : IsSourceFile(log'[i].is)
      <4>1. \A i \in DOMAIN log' : i = Len(log) + 1 \/ i \in DOMAIN log BY <3>5, <3>6
      <4> QED BY <3>2, <3>3, <3>5, <3>6, <3>7, <4>1
    <3>9. EntriesIn("names")' = [i \in DOMAIN log' |-> log'[i].is] BY <3>4 DEF EntriesIn
    <3>10. \A n \in ToSet([i \in DOMAIN log' |-> log'[i].is]) : IsSourceFile(n) BY <3>8 DEF ToSet
    <3> QED BY <2>1, <3>9, <3>10 DEF NamesAreTyped
  <2> QED BY <2>2, <2>3
<1> QED BY <1>1, <1>2

(***************************************************************************)
(* SourcesAgree: for any names of source files and any banks, what the     *)
(* listing of a server (remote_logs.py:201-264), the one of a local folder *)
(* (log_core.py:2212-2244), the loader (2165, 2305) and the watcher        *)
(* (web_services.py:86-98) each read of a name agrees.                     *)
(***************************************************************************)
THEOREM ListedIsLoadedAndWatched == Spec => []SourcesAgree
<1>1. Init => NamesAreTyped
  <2>1. ToSet(<<>>) = {} BY DEF ToSet
  <2>2. Init => EntriesIn("names") = <<>>
    <3> SUFFICES ASSUME log = <<>> PROVE EntriesIn("names") = <<>> BY DEF Init
    <3>1. [i \in DOMAIN <<>> |-> <<>>[i].is] = <<>> OBVIOUS
    <3> QED BY <3>1 DEF EntriesIn
  <2> QED BY InitType, <2>1, <2>2 DEF NamesAreTyped
<1>2. NamesAreTyped /\ [Grow]_vars => NamesAreTyped' BY NamesGrow
<1>3. NamesAreTyped => SourcesAgree
  <2> SUFFICES ASSUME NamesAreTyped PROVE SourcesAgree OBVIOUS
  <2> DEFINE names == ToSet(EntriesIn("names"))
  <2>1. \A n \in names : IsSourceFile(n) BY DEF NamesAreTyped
  <2> HIDE DEF names
  <2>2. ASSUME NEW bank \in DOMAIN BankCodes
        PROVE  /\ \A day \in {AuditDate(n) : n \in names} : AuditsAgree(names, bank, day)
               /\ \A n \in SignedFiles(names, Today, bank) : Reports({n}, Today, bank)
               /\ bank \in AvailableBanks(names) =>
                      \E n \in names : bank \in BanksForAudits({n}) /\ (AuditDate(n) # 0 => n \in ListedAudits(names))
    <3>1. \A day \in {AuditDate(n) : n \in names} : AuditsAgree(names, bank, day) BY <2>1, ListedIsLoaded
    <3>2. \A n \in SignedFiles(names, Today, bank) : Reports({n}, Today, bank) BY <2>1, SignedIsReported
    <3>3. bank \in AvailableBanks(names) =>
              \E n \in names : bank \in BanksForAudits({n}) /\ (AuditDate(n) # 0 => n \in ListedAudits(names))
      BY BankIsOffered
    <3> QED BY <3>1, <3>2, <3>3
  <2> QED BY <2>2 DEF SourcesAgree, names
<1> QED BY <1>1, <1>2, <1>3, PTL DEF Spec
=============================================================================
