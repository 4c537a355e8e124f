---------------------------- MODULE WebStores_proofs ----------------------------
(***************************************************************************)
(* Proofs about the stores that the sessions of the web interface share:   *)
(* comparisons (ComparisonStore) and previews (PreviewStore), for any      *)
(* sessions, transactions and limits.                                      *)
(***************************************************************************)
EXTENDS PreviewStore, ComparisonStore, TLAPS

LEMMA NewestOf ==
    ASSUME NEW S, NEW e \in Seq(S), NEW n \in Nat \ {0}
    PROVE  /\ Newest(e, n) \in Seq(S)
           /\ Len(Newest(e, n)) = IF Len(e) > n THEN n ELSE Len(e)
           /\ \A i \in 1..Len(Newest(e, n)) : Newest(e, n)[i] = e[Len(e) - Len(Newest(e, n)) + i]
<1>1. Len(e) \in Nat OBVIOUS
<1>2. CASE Len(e) > n
  <2> DEFINE k == Len(e) - n
             t == SubSeq(e, k + 1, Len(e))
  <2>1. k \in Nat /\ k + n = Len(e) BY <1>1, <1>2
  <2>2. t \in Seq(S) /\ Len(t) = n /\ \A i \in 1..n : t[i] = e[k + i] BY <1>1, <2>1
  <2>3. Newest(e, n) = t BY <1>2 DEF Newest
  <2> HIDE DEF t
  <2> QED BY <1>2, <2>2, <2>3
<1>3. CASE ~(Len(e) > n) BY <1>1, <1>3 DEF Newest
<1> QED BY <1>2, <1>3

LEMMA RemoveOf ==
    ASSUME NEW S, NEW s \in Seq(S), NEW i \in 1..Len(s)
    PROVE  /\ RemoveAt(s, i) \in Seq(S) /\ Len(RemoveAt(s, i)) = Len(s) - 1
           /\ \A j \in 1..Len(s) - 1 : RemoveAt(s, i)[j] = IF j < i THEN s[j] ELSE s[j + 1]
<1> DEFINE a == SubSeq(s, 1, i - 1)
           b == SubSeq(s, i + 1, Len(s))
<1>1. Len(s) \in Nat /\ i \in Nat /\ 1 <= i /\ i <= Len(s) OBVIOUS
<1>2. a \in Seq(S) /\ Len(a) = i - 1 /\ \A j \in 1..i - 1 : a[j] = s[j] BY <1>1
<1>3. b \in Seq(S) /\ Len(b) = Len(s) - i /\ \A j \in 1..Len(s) - i : b[j] = s[i + j] BY <1>1
<1> HIDE DEF a, b
<1>4. a \o b \in Seq(S) /\ Len(a \o b) = Len(s) - 1
  <2>1. a \in Seq(S) /\ b \in Seq(S) BY <1>2, <1>3
  <2>2. a \o b \in Seq(S) BY <2>1
  <2>3. Len(a \o b) = Len(a) + Len(b) BY <2>1
  <2> QED BY <1>1, <1>2, <1>3, <2>2, <2>3
<1>5. ASSUME NEW j \in 1..Len(s) - 1 PROVE (a \o b)[j] = IF j < i THEN s[j] ELSE s[j + 1]
  <2>1. CASE j < i BY <1>1, <1>2, <1>3, <2>1
  <2>2. CASE ~(j < i)
    <3>1. j - (i - 1) \in 1..Len(s) - i BY <1>1, <2>2
    <3>2. (a \o b)[j] = b[j - (i - 1)] BY <1>1, <1>2, <1>3, <2>2, <3>1
    <3>3. b[j - (i - 1)] = s[i + (j - (i - 1))] BY <1>3, <3>1
    <3>4. i + (j - (i - 1)) = j + 1 BY <1>1
    <3> QED BY <2>2, <3>2, <3>3, <3>4
  <2> QED BY <2>1, <2>2
<1> QED BY <1>4, <1>5 DEF RemoveAt, a, b

-----------------------------------------------------------------------------
(* Comparisons *)

SafeComparisons == ComparisonInv /\ ComparisonOfSelection

LEMMA KeyIsLink ==
    ASSUME NEW logs \in 0..MaxLoads, NEW selected \in Selections
    PROVE  LET key == ComparisonKey(logs, selected) IN
           /\ key \in ((0..MaxLoads) \X Pairs) \union {NoKey}
           /\ key = NoKey <=> selected = NoPair
           /\ key # NoKey => selected \in Pairs /\ key[1] = logs /\ key[2] = selected
BY DEF ComparisonKey, NoKey, Selections

LEMMA UpdateKeeps ==
    ASSUME SafeComparisons, NEW s \in Sessions, NEW logs \in 0..MaxLoads, NEW selected \in Selections,
           UpdateActions(s, logs, selected)
    PROVE  SafeComparisons'
<1> DEFINE key == ComparisonKey(logs, selected)
           token == Len(entry) + 1
<1> USE DEF SafeComparisons, ComparisonInv
<1>0. Len(entry) \in Nat /\ comparisons \in Seq(1..Len(entry)) BY DEF ComparisonTypeOK
<1>1. /\ entry \in Seq(Entries) /\ Len(entry) <= MaxTokens /\ Len(entry) \in Nat
      /\ compare \in [Sessions -> Compares(Len(entry))]
      /\ comparisons \in Seq(1..Len(entry))
      /\ generations \in Seq(Seq(Generations)) /\ Len(generations) = Len(entry)
      /\ errors \in Seq(Nat) /\ Len(errors) = Len(entry) /\ requests \in 0..MaxRequests
  BY DEF ComparisonTypeOK
<1>2. /\ key \in ((0..MaxLoads) \X Pairs) \union {NoKey}
      /\ key = NoKey <=> selected = NoPair
      /\ key # NoKey => selected \in Pairs /\ key[1] = logs /\ key[2] = selected
  BY KeyIsLink
<1>3. compare[s] \in Compares(Len(entry)) /\ compare[s].key = ComparisonKey(compare[s].logs, compare[s].selected)
      /\ (compare[s].url = NoUrl <=> compare[s].key = NoKey)
  BY <1>1 DEF LinkOfKey
<1>4. CASE key = compare[s].key
  <2>1. /\ compare' = [compare EXCEPT ![s] = [@ EXCEPT !.logs = logs, !.selected = selected]]
        /\ UNCHANGED <<entry, comparisons, attempts>>
    BY <1>4 DEF UpdateActions
  <2>2. /\ compare'[s] \in Compares(Len(entry)) /\ compare'[s].logs = logs /\ compare'[s].selected = selected
        /\ compare'[s].key = compare[s].key /\ compare'[s].url = compare[s].url
    BY <1>1, <1>3, <2>1 DEF Compares
  <2>3. \A t \in Sessions : t # s => compare'[t] = compare[t] BY <1>1, <2>1
  <2>4. compare' \in [Sessions -> Compares(Len(entry))] BY <1>1, <2>1, <2>2
  <2>5. ComparisonTypeOK' BY <1>1, <2>1, <2>4 DEF ComparisonTypeOK, attempts
  <2>6. MadeOnceMoreThanFailed' /\ ErrorsAreFailures' /\ KeepsNewest'
    BY <2>1 DEF MadeOnceMoreThanFailed, ErrorsAreFailures, KeepsNewest, Task, attempts
  <2>7. LinkOfKey' BY <1>3, <1>4, <2>2, <2>3 DEF LinkOfKey
  <2>8. ComparisonOfSelection'
    <3>1. compare[s].url # NoUrl => compare[s].logs = logs /\ compare[s].selected = selected
      <4>1. SUFFICES ASSUME key # NoKey PROVE compare[s].logs = logs /\ compare[s].selected = selected
        BY <1>3, <1>4
      <4>2. compare[s].logs \in 0..MaxLoads /\ compare[s].selected \in Selections BY <1>3 DEF Compares
      <4> QED BY <1>2, <1>3, <1>4, <4>1, <4>2, KeyIsLink
    <3> QED BY <2>1, <2>2, <2>3, <3>1 DEF ComparisonOfSelection
  <2> QED BY <2>5, <2>6, <2>7, <2>8
<1>5. CASE key # compare[s].key /\ key = NoKey
  <2>1. /\ compare' = [compare EXCEPT ![s] = [logs |-> logs, selected |-> selected, key |-> NoKey, url |-> NoUrl]]
        /\ UNCHANGED <<entry, comparisons, attempts>>
    BY <1>5 DEF UpdateActions
  <2>2. [logs |-> logs, selected |-> selected, key |-> NoKey, url |-> NoUrl] \in Compares(Len(entry))
    BY <1>1 DEF Compares, NoUrl
  <2>3. /\ compare'[s] = [logs |-> logs, selected |-> selected, key |-> NoKey, url |-> NoUrl]
        /\ \A t \in Sessions : t # s => compare'[t] = compare[t]
    BY <1>1, <2>1
  <2>4. compare' \in [Sessions -> Compares(Len(entry))] BY <1>1, <2>1, <2>2
  <2>5. ComparisonTypeOK' BY <1>1, <2>1, <2>4 DEF ComparisonTypeOK, attempts
  <2>6. MadeOnceMoreThanFailed' /\ ErrorsAreFailures' /\ KeepsNewest'
    BY <2>1 DEF MadeOnceMoreThanFailed, ErrorsAreFailures, KeepsNewest, Task, attempts
  <2>7. LinkOfKey' BY <1>5, <2>3 DEF LinkOfKey
  <2>8. ComparisonOfSelection' BY <2>1, <2>3 DEF ComparisonOfSelection
  <2> QED BY <2>5, <2>6, <2>7, <2>8
<1>6. CASE key # compare[s].key /\ key # NoKey
  <2> DEFINE new == [logs |-> logs, selected |-> selected, key |-> key, url |-> token]
             e == [session |-> s, logs |-> logs, uids |-> selected, task |-> NoTask]
             more == Append(comparisons, token)
  <2>1. /\ token <= MaxTokens /\ compare' = [compare EXCEPT ![s] = new] /\ entry' = Append(entry, e)
        /\ comparisons' = Newest(more, TokenLimit) /\ generations' = Append(generations, <<>>)
        /\ errors' = Append(errors, 0) /\ UNCHANGED requests
    BY <1>6 DEF UpdateActions
  <2>2. new \in Compares(token) /\ e \in Entries
    <3>1. token \in 0..token BY <1>1
    <3> QED BY <1>2, <1>6, <3>1 DEF Compares, Entries, NoTask
  <2>3. entry' \in Seq(Entries) /\ Len(entry') = token /\ entry'[token] = e
        /\ \A i \in 1..Len(entry) : entry'[i] = entry[i]
    BY <1>1, <2>1, <2>2
  <2>4. \A t \in Sessions : compare[t] \in Compares(token)
    <3>1. \A u \in 0..Len(entry) : u \in 0..token BY <1>1
    <3> QED BY <1>1, <3>1 DEF Compares
  <2>5. compare'[s] = new /\ (\A t \in Sessions : t # s => compare'[t] = compare[t])
        /\ compare' \in [Sessions -> Compares(token)]
    BY <1>1, <2>1, <2>2, <2>4
  <2>6. more \in Seq(1..token) /\ Len(more) = Len(comparisons) + 1
        /\ (\A i \in 1..Len(comparisons) : more[i] = comparisons[i]) /\ more[Len(comparisons) + 1] = token
    <3>1. comparisons \in Seq(1..token)
      <4>1. \A u \in 1..Len(entry) : u \in 1..token BY <1>1
      <4> QED BY <1>1, <4>1
    <3>2. token \in 1..token BY <1>1
    <3> QED BY <3>1, <3>2
  <2>7. /\ comparisons' \in Seq(1..token)
        /\ Len(comparisons') = IF Len(more) > TokenLimit THEN TokenLimit ELSE Len(more)
        /\ \A i \in 1..Len(comparisons') : comparisons'[i] = more[Len(more) - Len(comparisons') + i]
    <3> HIDE DEF more, token
    <3>1. TokenLimit \in Nat \ {0} BY StoresAssumption
    <3>2. more \in Seq(1..token) BY <2>6
    <3> DEFINE newest == Newest(more, TokenLimit)
    <3>3. /\ newest \in Seq(1..token)
          /\ Len(newest) = IF Len(more) > TokenLimit THEN TokenLimit ELSE Len(more)
          /\ \A i \in 1..Len(newest) : newest[i] = more[Len(more) - Len(newest) + i]
      BY <3>1, <3>2, NewestOf
    <3>4. comparisons' = newest BY <2>1
    <3> HIDE DEF newest
    <3> QED BY <3>3, <3>4
  <2>8. /\ errors' \in Seq(Nat) /\ Len(errors') = token /\ errors'[token] = 0
        /\ \A i \in 1..Len(entry) : errors'[i] = errors[i]
        /\ generations' \in Seq(Seq(Generations)) /\ Len(generations') = token /\ generations'[token] = <<>>
        /\ \A i \in 1..Len(entry) : generations'[i] = generations[i]
    <3>1. <<>> \in Seq(Generations) OBVIOUS
    <3> DEFINE G == Seq(Generations)
    <3>2. generations \in Seq(G) /\ <<>> \in G BY <1>1, <3>1
    <3> HIDE DEF G
    <3>3. generations' \in Seq(G) /\ Len(generations') = token /\ generations'[token] = <<>>
          /\ \A i \in 1..Len(entry) : generations'[i] = generations[i]
      BY <1>1, <2>1, <3>2
    <3>4. errors' \in Seq(Nat) /\ Len(errors') = token /\ errors'[token] = 0
          /\ \A i \in 1..Len(entry) : errors'[i] = errors[i]
      BY <1>1, <2>1
    <3> QED BY <3>3, <3>4 DEF G
  <2> HIDE DEF new, e, more, key
  <2>9. ComparisonTypeOK' BY <2>1, <2>3, <2>5, <2>7, <2>8 DEF ComparisonTypeOK
  <2>10. \A i \in 1..Len(entry') : i \in 1..Len(entry) \/ i = token BY <1>0, <2>3
  <2>11. DOMAIN entry' = 1..Len(entry') /\ DOMAIN entry = 1..Len(entry) BY <1>1, <2>3
  <2>12. MadeOnceMoreThanFailed' /\ ErrorsAreFailures'
    <3>1. entry'[token].task = NoTask /\ Len(generations'[token]) = 0 /\ errors'[token] = 0 BY <2>3, <2>8 DEF e
    <3>2. \A i \in 1..Len(entry) :
            entry'[i] = entry[i] /\ generations'[i] = generations[i] /\ errors'[i] = errors[i]
      BY <2>3, <2>8
    <3>3. MadeOnceMoreThanFailed' BY <2>10, <2>11, <3>1, <3>2 DEF MadeOnceMoreThanFailed, Task
    <3>4. ErrorsAreFailures' BY <2>10, <2>11, <3>1, <3>2 DEF ErrorsAreFailures
    <3> QED BY <3>3, <3>4
  <2>13. KeepsNewest'
    <3>1. /\ Len(comparisons) = IF Len(entry) > TokenLimit THEN TokenLimit ELSE Len(entry)
          /\ \A i \in 1..Len(comparisons) : comparisons[i] = Len(entry) - Len(comparisons) + i
      BY <1>0 DEF KeepsNewest
    <3>2. Len(comparisons') = IF Len(entry') > TokenLimit THEN TokenLimit ELSE Len(entry')
      BY <1>1, <2>3, <2>6, <2>7, <3>1, StoresAssumption
    <3>3. ASSUME NEW i \in 1..Len(more) PROVE more[i] = token - Len(more) + i
      <4>1. Len(comparisons) \in Nat /\ Len(more) = Len(comparisons) + 1 BY <1>1, <2>6
      <4>2. CASE i = Len(comparisons) + 1 BY <1>1, <2>6, <4>1, <4>2
      <4>3. CASE i # Len(comparisons) + 1
        <5>1. i \in 1..Len(comparisons) BY <4>1, <4>3
        <5>2. more[i] = Len(entry) - Len(comparisons) + i BY <2>6, <3>1, <5>1
        <5> QED BY <1>1, <4>1, <5>2
      <4> QED BY <4>2, <4>3
    <3>4. ASSUME NEW i \in 1..Len(comparisons') PROVE comparisons'[i] = Len(entry') - Len(comparisons') + i
      <4>1. Len(comparisons') \in Nat /\ Len(more) \in Nat /\ Len(comparisons') <= Len(more)
        BY <2>6, <2>7, StoresAssumption
      <4>2. Len(more) - Len(comparisons') + i \in 1..Len(more) BY <4>1
      <4>3. comparisons'[i] = token - Len(more) + (Len(more) - Len(comparisons') + i) BY <2>7, <3>3, <4>2
      <4> QED BY <1>1, <2>3, <4>1, <4>3
    <3>5. DOMAIN comparisons' = 1..Len(comparisons') BY <2>7
    <3> QED BY <3>2, <3>4, <3>5 DEF KeepsNewest
  <2>14. LinkOfKey'
    <3>1. token # NoUrl BY <1>1 DEF NoUrl
    <3> QED BY <1>6, <2>5, <3>1 DEF LinkOfKey, new, key
  <2>15. ComparisonOfSelection'
    <3>1. ASSUME NEW t \in Sessions, t # s, compare[t].url # NoUrl PROVE entry'[compare[t].url] = entry[compare[t].url]
      <4>1. compare[t].url \in 1..Len(entry) BY <1>1, <3>1 DEF Compares, NoUrl
      <4> QED BY <2>3, <4>1
    <3> QED BY <2>3, <2>5, <3>1 DEF ComparisonOfSelection, new, e
  <2> QED BY <2>9, <2>12, <2>13, <2>14, <2>15
<1> QED BY <1>4, <1>5, <1>6

\* What the tasks of an entry are after a step, and how many errors were answered.
LEMMA TaskKeeps ==
    ASSUME SafeComparisons, NEW token \in DOMAIN entry, NEW task0 \in Nat, NEW gs \in Seq(Generations), NEW n \in Nat,
           task0 \in {NoTask, Len(gs)}, Len(gs) <= n + (IF task0 = NoTask THEN 0 ELSE 1),
           n > 0 => \E g \in DOMAIN gs : gs[g].state = "failed",
           entry' = [entry EXCEPT ![token].task = task0], generations' = [generations EXCEPT ![token] = gs],
           errors' = [errors EXCEPT ![token] = n], requests' \in 0..MaxRequests,
           UNCHANGED <<compare, comparisons>>
    PROVE  SafeComparisons'
<1> USE DEF SafeComparisons, ComparisonInv
<1> DEFINE G == Seq(Generations)
<1>1. /\ entry \in Seq(Entries) /\ token \in 1..Len(entry)
      /\ generations \in Seq(G) /\ Len(generations) = Len(entry) /\ errors \in Seq(Nat) /\ Len(errors) = Len(entry)
  BY DEF ComparisonTypeOK
<1>2. entry[token] \in Entries BY <1>1
<1>3. [entry[token] EXCEPT !.task = task0] \in Entries BY <1>2 DEF Entries
<1>4. /\ entry' \in Seq(Entries) /\ Len(entry') = Len(entry) /\ DOMAIN entry' = DOMAIN entry
      /\ entry'[token] = [entry[token] EXCEPT !.task = task0]
      /\ \A i \in DOMAIN entry : i # token => entry'[i] = entry[i]
  BY <1>1, <1>3
<1> HIDE DEF G
<1>5. /\ generations' \in Seq(G) /\ Len(generations') = Len(entry) /\ generations'[token] = gs
      /\ \A i \in DOMAIN entry : i # token => generations'[i] = generations[i]
  BY <1>1 DEF G
<1>6. /\ errors' \in Seq(Nat) /\ Len(errors') = Len(entry) /\ errors'[token] = n
      /\ \A i \in DOMAIN entry : i # token => errors'[i] = errors[i]
  BY <1>1
<1>7. /\ entry'[token].task = task0
      /\ \A i \in DOMAIN entry : entry'[i].session = entry[i].session /\ entry'[i].logs = entry[i].logs
                              /\ entry'[i].uids = entry[i].uids
  BY <1>2, <1>4 DEF Entries
<1>8. ComparisonTypeOK' BY <1>1, <1>4, <1>5, <1>6 DEF ComparisonTypeOK, G
<1>9. MadeOnceMoreThanFailed'
  <2>1. \A i \in DOMAIN entry : i # token =>
          /\ Task(i) \in {NoTask, Len(generations[i])}
          /\ Len(generations[i]) <= errors[i] + (IF Task(i) = NoTask THEN 0 ELSE 1)
    BY DEF MadeOnceMoreThanFailed
  <2>2. \A i \in DOMAIN entry' : i # token =>
          /\ Task(i)' \in {NoTask, Len(generations'[i])}
          /\ Len(generations'[i]) <= errors'[i] + (IF Task(i)' = NoTask THEN 0 ELSE 1)
    BY <1>4, <1>5, <1>6, <2>1 DEF Task
  <2>3. Task(token)' = task0 BY <1>7 DEF Task
  <2> QED BY <1>5, <1>6, <2>2, <2>3 DEF MadeOnceMoreThanFailed
<1>10. ErrorsAreFailures' BY <1>4, <1>5, <1>6 DEF ErrorsAreFailures
<1>11. KeepsNewest' /\ LinkOfKey' BY <1>4 DEF KeepsNewest, LinkOfKey
<1>12. ComparisonOfSelection'
  <2>1. ASSUME NEW s \in Sessions, compare[s].url # NoUrl PROVE compare[s].url \in DOMAIN entry
    <3>1. compare[s] \in Compares(Len(entry)) BY DEF ComparisonTypeOK
    <3> QED BY <1>1, <2>1, <3>1 DEF Compares, NoUrl
  <2> QED BY <1>7, <2>1 DEF ComparisonOfSelection
<1> QED BY <1>8, <1>9, <1>10, <1>11, <1>12

LEMMA TaskFacts ==
    ASSUME SafeComparisons, NEW token \in DOMAIN entry
    PROVE  /\ entry[token] \in Entries /\ Task(token) \in Nat /\ errors[token] \in Nat
           /\ entry = [entry EXCEPT ![token].task = Task(token)] /\ errors = [errors EXCEPT ![token] = errors[token]]
           /\ generations = [generations EXCEPT ![token] = generations[token]]
           /\ generations[token] \in Seq(Generations) /\ DOMAIN generations[token] = 1..Len(generations[token])
           /\ \A g \in DOMAIN generations[token] : generations[token][g] \in Generations
           /\ Task(token) \in {NoTask, Len(generations[token])}
           /\ Len(generations[token]) <= errors[token] + (IF Task(token) = NoTask THEN 0 ELSE 1)
           /\ errors[token] > 0 => \E g \in DOMAIN generations[token] : generations[token][g].state = "failed"
           /\ token \in DOMAIN generations /\ token \in DOMAIN errors
           /\ requests \in 0..MaxRequests
<1> USE DEF SafeComparisons, ComparisonInv
<1> DEFINE G == Seq(Generations)
<1>1. /\ entry \in Seq(Entries) /\ token \in 1..Len(entry)
      /\ generations \in Seq(G) /\ Len(generations) = Len(entry) /\ errors \in Seq(Nat) /\ Len(errors) = Len(entry)
      /\ requests \in 0..MaxRequests
  BY DEF ComparisonTypeOK
<1> HIDE DEF G
<1>2. generations[token] \in G /\ generations = [generations EXCEPT ![token] = generations[token]]
      /\ token \in DOMAIN generations
  BY <1>1
<1>3. errors[token] \in Nat /\ errors = [errors EXCEPT ![token] = errors[token]] /\ token \in DOMAIN errors BY <1>1
<1>4. entry[token] \in Entries BY <1>1
<1>5. Task(token) \in Nat /\ entry = [entry EXCEPT ![token].task = Task(token)] BY <1>1, <1>4 DEF Task, Entries
<1>6. /\ generations[token] \in Seq(Generations) /\ DOMAIN generations[token] = 1..Len(generations[token])
      /\ \A g \in DOMAIN generations[token] : generations[token][g] \in Generations
  BY <1>2 DEF G
<1>7. /\ Task(token) \in {NoTask, Len(generations[token])}
      /\ Len(generations[token]) <= errors[token] + (IF Task(token) = NoTask THEN 0 ELSE 1)
  BY DEF MadeOnceMoreThanFailed
<1>8. errors[token] > 0 => \E g \in DOMAIN generations[token] : generations[token][g].state = "failed"
  BY DEF ErrorsAreFailures
<1> QED BY <1>1, <1>2, <1>3, <1>4, <1>5, <1>6, <1>7, <1>8

\* A generation "g" of an entry changes, but not from failed.
LEMMA GenerationChanges ==
    ASSUME SafeComparisons, NEW token \in DOMAIN entry, NEW g \in DOMAIN generations[token], NEW new \in Generations,
           generations[token][g].state = "failed" => new.state = "failed"
    PROVE  LET gs == [generations[token] EXCEPT ![g] = new] IN
           /\ gs \in Seq(Generations) /\ Len(gs) = Len(generations[token]) /\ DOMAIN gs = DOMAIN generations[token]
           /\ gs[g] = new /\ \A h \in DOMAIN generations[token] : h # g => gs[h] = generations[token][h]
           /\ errors[token] > 0 => \E h \in DOMAIN gs : gs[h].state = "failed"
<1> DEFINE gs == [generations[token] EXCEPT ![g] = new]
<1>1. generations[token] \in Seq(Generations) /\ DOMAIN generations[token] = 1..Len(generations[token])
  BY TaskFacts
<1>2. /\ gs \in Seq(Generations) /\ Len(gs) = Len(generations[token]) /\ DOMAIN gs = DOMAIN generations[token]
      /\ gs[g] = new /\ \A h \in DOMAIN generations[token] : h # g => gs[h] = generations[token][h]
  BY <1>1
<1> HIDE DEF gs
<1>3. ASSUME errors[token] > 0 PROVE \E h \in DOMAIN gs : gs[h].state = "failed"
  <2>1. PICK h \in DOMAIN generations[token] : generations[token][h].state = "failed" BY <1>3, TaskFacts
  <2>2. gs[h].state = "failed" BY <1>2, <2>1
  <2> QED BY <1>2, <2>1, <2>2
<1> QED BY <1>2, <1>3 DEF gs

LEMMA RequestKeeps ==
    ASSUME SafeComparisons, NEW token \in DOMAIN entry, Request(token)
    PROVE  SafeComparisons'
<1> DEFINE gs == generations[token]
           t == Task(token)
<1>1. /\ requests' \in 0..MaxRequests /\ UNCHANGED <<compare, comparisons>>
  BY TaskFacts, ComparisonAssumption DEF Request, NewRequest
<1>2. CASE t = NoTask
  <2> DEFINE first == [state |-> "running", waiting |-> 1]
             more == Append(gs, first)
  <2>1. /\ generations' = [generations EXCEPT ![token] = more] /\ entry' = [entry EXCEPT ![token].task = Len(gs) + 1]
        /\ errors' = errors
    BY <1>2, TaskFacts DEF Request, Begin
  <2>2. gs \in Seq(Generations) /\ Len(gs) \in Nat /\ first \in Generations BY TaskFacts DEF Generations
  <2>3. more \in Seq(Generations) /\ Len(more) = Len(gs) + 1 /\ DOMAIN more = 1..Len(gs) + 1
        /\ \A g \in 1..Len(gs) : more[g] = gs[g]
    BY <2>2
  <2> HIDE DEF more, first
  <2>4. errors[token] > 0 => \E g \in DOMAIN more : more[g].state = "failed"
    <3>1. SUFFICES ASSUME errors[token] > 0 PROVE \E g \in DOMAIN more : more[g].state = "failed" OBVIOUS
    <3>2. PICK g \in 1..Len(gs) : gs[g].state = "failed" BY <3>1, TaskFacts
    <3>3. g \in DOMAIN more /\ more[g] = gs[g] BY <2>2, <2>3
    <3> QED BY <3>2, <3>3
  <2>5. errors[token] \in Nat /\ Len(gs) <= errors[token] /\ errors' = [errors EXCEPT ![token] = errors[token]]
    BY <1>2, <2>1, TaskFacts
  <2>6. Len(gs) + 1 # NoTask /\ Len(gs) + 1 \in Nat BY <2>2 DEF NoTask
  <2>7. Len(gs) + 1 \in {NoTask, Len(more)} /\ Len(more) <= errors[token] + (IF Len(gs) + 1 = NoTask THEN 0 ELSE 1)
    BY <2>2, <2>3, <2>5, <2>6
  <2> HIDE DEF gs
  <2> QED BY <1>1, <2>1, <2>3, <2>4, <2>5, <2>6, <2>7, TaskKeeps
<1>3. CASE t # NoTask
  <2>1. t \in DOMAIN gs /\ gs[t] \in Generations
    <3>1. t \in Nat /\ t = Len(gs) BY <1>3, TaskFacts
    <3> QED BY <1>3, <3>1, TaskFacts DEF NoTask
  <2>2. CASE gs[t].state = "running"
    <3> DEFINE more == [gs EXCEPT ![t] = [gs[t] EXCEPT !.waiting = gs[t].waiting + 1]]
    <3>1. generations' = [generations EXCEPT ![token] = more] /\ entry' = entry /\ errors' = errors
      BY <1>3, <2>1, <2>2, TaskFacts DEF Request
    <3>2. [gs[t] EXCEPT !.waiting = gs[t].waiting + 1] \in Generations
          /\ [gs[t] EXCEPT !.waiting = gs[t].waiting + 1].state = gs[t].state
      BY <2>1 DEF Generations
    <3>3. more \in Seq(Generations) /\ Len(more) = Len(gs)
          /\ (errors[token] > 0 => \E g \in DOMAIN more : more[g].state = "failed")
      BY <2>1, <3>2, GenerationChanges
    <3> HIDE DEF more
    <3>4. entry' = [entry EXCEPT ![token].task = t] /\ errors' = [errors EXCEPT ![token] = errors[token]]
          /\ t \in Nat /\ errors[token] \in Nat /\ t \in {NoTask, Len(more)}
          /\ Len(more) <= errors[token] + (IF t = NoTask THEN 0 ELSE 1)
      BY <3>1, <3>3, TaskFacts
    <3> HIDE DEF gs, t
    <3> QED BY <1>1, <3>1, <3>3, <3>4, TaskKeeps
  <2>3. CASE gs[t].state = "done"
    <3>1. UNCHANGED <<entry, generations, errors>> BY <1>3, <2>3 DEF Request
    <3>2. entry' = [entry EXCEPT ![token].task = t] /\ errors' = [errors EXCEPT ![token] = errors[token]]
          /\ generations' = [generations EXCEPT ![token] = gs] /\ gs \in Seq(Generations)
          /\ t \in Nat /\ errors[token] \in Nat /\ t \in {NoTask, Len(gs)}
          /\ Len(gs) <= errors[token] + (IF t = NoTask THEN 0 ELSE 1)
          /\ (errors[token] > 0 => \E g \in DOMAIN gs : gs[g].state = "failed")
      BY <3>1, TaskFacts
    <3> HIDE DEF gs, t
    <3> QED BY <1>1, <3>2, TaskKeeps
  <2>4. CASE gs[t].state = "failed"
    <3>1. UNCHANGED generations /\ AnswerError(token) BY <1>3, <2>4 DEF Request
    <3> DEFINE n == errors[token] + 1
    <3>2. entry' = [entry EXCEPT ![token].task = NoTask] /\ errors' = [errors EXCEPT ![token] = n]
          /\ generations' = [generations EXCEPT ![token] = gs] /\ gs \in Seq(Generations)
          /\ NoTask \in Nat /\ n \in Nat /\ Len(gs) <= n + (IF NoTask = NoTask THEN 0 ELSE 1)
      BY <3>1, TaskFacts DEF AnswerError, NoTask
    <3>3. \E g \in DOMAIN gs : gs[g].state = "failed" BY <2>1, <2>4
    <3> HIDE DEF gs, t, n
    <3> QED BY <1>1, <3>2, <3>3, TaskKeeps
  <2>5. gs[t].state \in {"running", "done", "failed"} BY <2>1 DEF Generations
  <2> QED BY <2>2, <2>3, <2>4, <2>5
<1> QED BY <1>2, <1>3

LEMMA GenerationEndKeeps ==
    ASSUME SafeComparisons, NEW token \in DOMAIN entry, NEW g \in DOMAIN generations[token],
           NEW state \in {"done", "failed"}, GenerationEnds(token, g, state)
    PROVE  SafeComparisons'
<1> DEFINE gs == generations[token]
           more == [gs EXCEPT ![g] = [gs[g] EXCEPT !.state = state]]
<1>1. /\ gs[g].state = "running" /\ generations' = [generations EXCEPT ![token] = more]
      /\ UNCHANGED <<compare, entry, comparisons, errors, requests>>
  BY TaskFacts DEF GenerationEnds
<1>2. gs[g] \in Generations BY TaskFacts
<1>3. [gs[g] EXCEPT !.state = state] \in Generations BY <1>2 DEF Generations
<1>4. more \in Seq(Generations) /\ Len(more) = Len(gs)
      /\ (errors[token] > 0 => \E h \in DOMAIN more : more[h].state = "failed")
  BY <1>1, <1>3, GenerationChanges
<1> HIDE DEF more
<1>5. entry' = [entry EXCEPT ![token].task = Task(token)] /\ errors' = [errors EXCEPT ![token] = errors[token]]
      /\ Task(token) \in Nat /\ errors[token] \in Nat /\ Task(token) \in {NoTask, Len(more)}
      /\ Len(more) <= errors[token] + (IF Task(token) = NoTask THEN 0 ELSE 1) /\ requests' \in 0..MaxRequests
  BY <1>1, <1>4, TaskFacts
<1> QED BY <1>1, <1>4, <1>5, TaskKeeps

LEMMA WakesKeeps ==
    ASSUME SafeComparisons, NEW token \in DOMAIN entry, NEW g \in DOMAIN generations[token], Wakes(token, g)
    PROVE  SafeComparisons'
<1> DEFINE gs == generations[token]
           more == [gs EXCEPT ![g] = [gs[g] EXCEPT !.waiting = gs[g].waiting - 1]]
<1>1. /\ gs[g].waiting > 0 /\ generations' = [generations EXCEPT ![token] = more]
      /\ IF gs[g].state = "failed" THEN AnswerError(token) ELSE UNCHANGED <<entry, errors>>
      /\ UNCHANGED <<compare, comparisons, requests>>
  BY TaskFacts DEF Wakes
<1>2. gs[g] \in Generations BY TaskFacts
<1>3. [gs[g] EXCEPT !.waiting = gs[g].waiting - 1] \in Generations
      /\ [gs[g] EXCEPT !.waiting = gs[g].waiting - 1].state = gs[g].state
  BY <1>1, <1>2 DEF Generations
<1>4. more \in Seq(Generations) /\ Len(more) = Len(gs) /\ DOMAIN more = DOMAIN gs
      /\ (errors[token] > 0 => \E h \in DOMAIN more : more[h].state = "failed")
      /\ more[g].state = gs[g].state
  <2> DEFINE new == [gs[g] EXCEPT !.waiting = gs[g].waiting - 1]
  <2>1. new \in Generations /\ new.state = gs[g].state BY <1>3
  <2> HIDE DEF new
  <2>2. LET all == [generations[token] EXCEPT ![g] = new] IN
        /\ all \in Seq(Generations) /\ Len(all) = Len(generations[token]) /\ DOMAIN all = DOMAIN generations[token]
        /\ all[g] = new
        /\ errors[token] > 0 => \E h \in DOMAIN all : all[h].state = "failed"
    BY <2>1, GenerationChanges
  <2> QED BY <2>1, <2>2 DEF new
<1> HIDE DEF more
<1>5. requests' \in 0..MaxRequests /\ errors[token] \in Nat /\ Len(gs) \in Nat BY <1>1, TaskFacts
<1>6. CASE gs[g].state = "failed"
  <2> DEFINE n == errors[token] + 1
  <2>1. entry' = [entry EXCEPT ![token].task = NoTask] /\ errors' = [errors EXCEPT ![token] = n]
        /\ NoTask \in Nat /\ n \in Nat /\ Len(more) <= n + (IF NoTask = NoTask THEN 0 ELSE 1)
    BY <1>1, <1>4, <1>5, <1>6, TaskFacts DEF AnswerError, NoTask
  <2>2. \E h \in DOMAIN more : more[h].state = "failed" BY <1>4, <1>6
  <2> HIDE DEF n, gs
  <2> QED BY <1>1, <1>4, <1>5, <2>1, <2>2, TaskKeeps
<1>7. CASE gs[g].state # "failed"
  <2>1. entry' = [entry EXCEPT ![token].task = Task(token)] /\ errors' = [errors EXCEPT ![token] = errors[token]]
        /\ Task(token) \in Nat /\ Task(token) \in {NoTask, Len(more)}
        /\ Len(more) <= errors[token] + (IF Task(token) = NoTask THEN 0 ELSE 1)
    BY <1>1, <1>4, <1>7, TaskFacts
  <2> HIDE DEF gs
  <2> QED BY <1>1, <1>4, <1>5, <2>1, TaskKeeps
<1> QED BY <1>6, <1>7

LEMMA ComparisonsGoOn == SafeComparisons /\ [ComparisonNext]_comparisonVars => SafeComparisons'
<1> SUFFICES ASSUME SafeComparisons, [ComparisonNext]_comparisonVars PROVE SafeComparisons' OBVIOUS
<1>1. \A s \in Sessions : compare[s].logs \in 0..MaxLoads /\ compare[s].selected \in Selections
  BY DEF SafeComparisons, ComparisonInv, ComparisonTypeOK, Compares
<1>3. ASSUME NEW s \in Sessions, NEW selected \in Selections, Select(s, selected) PROVE SafeComparisons'
  BY <1>1, <1>3, UpdateKeeps DEF Select
<1>4. ASSUME NEW s \in Sessions, NEW selected \in Selections, Reload(s, selected) PROVE SafeComparisons'
  <2>1. compare[s].logs + 1 \in 0..MaxLoads BY <1>1, <1>4, StoresAssumption DEF Reload
  <2> QED BY <1>4, <2>1, UpdateKeeps DEF Reload
<1>6. ASSUME NEW token \in DOMAIN entry, Request(token) PROVE SafeComparisons' BY <1>6, RequestKeeps
<1>7. ASSUME NEW token \in DOMAIN entry, NEW g \in DOMAIN generations[token],
             Wakes(token, g) \/ \E state \in {"done", "failed"} : GenerationEnds(token, g, state)
      PROVE  SafeComparisons'
  BY <1>7, WakesKeeps, GenerationEndKeeps
<1>8. CASE UNCHANGED comparisonVars
  BY <1>8 DEF comparisonVars, SafeComparisons, ComparisonInv, ComparisonTypeOK, MadeOnceMoreThanFailed, Task,
              ErrorsAreFailures, KeepsNewest, LinkOfKey, ComparisonOfSelection
<1> QED BY <1>3, <1>4, <1>6, <1>7, <1>8 DEF ComparisonNext

LEMMA ComparisonsStart == ComparisonInit => SafeComparisons
<1> SUFFICES ASSUME ComparisonInit PROVE SafeComparisons OBVIOUS
<1> USE DEF ComparisonInit
<1>1. /\ entry = <<>> /\ comparisons = <<>> /\ generations = <<>> /\ errors = <<>> /\ requests = 0 /\ Len(entry) = 0 /\ Len(comparisons) = 0
      /\ DOMAIN entry = {} /\ DOMAIN comparisons = {}
  OBVIOUS
<1>2. [logs |-> 0, selected |-> NoPair, key |-> NoKey, url |-> NoUrl] \in Compares(0)
  BY StoresAssumption DEF Compares, Selections, NoUrl
<1>3. ComparisonTypeOK BY <1>1, <1>2, ComparisonAssumption DEF ComparisonTypeOK
<1>4. MadeOnceMoreThanFailed /\ ErrorsAreFailures BY <1>1 DEF MadeOnceMoreThanFailed, ErrorsAreFailures
<1>5. KeepsNewest BY <1>1, StoresAssumption DEF KeepsNewest
<1>6. \A s \in Sessions : compare[s].url = NoUrl /\ compare[s].key = NoKey /\ compare[s].selected = NoPair OBVIOUS
<1>7. LinkOfKey BY <1>6 DEF LinkOfKey, ComparisonKey
<1>8. ComparisonOfSelection BY <1>6 DEF ComparisonOfSelection
<1> QED BY <1>3, <1>4, <1>5, <1>7, <1>8 DEF SafeComparisons, ComparisonInv

(***************************************************************************)
(* For any sessions, pairs and limits: the tokens kept are the newest of   *)
(* all sessions, and a comparison is made once more than its requests were *)
(* answered with an error at most (web_app.py:258-264, 710-713).           *)
(***************************************************************************)
THEOREM ComparisonInvariant == ComparisonSpec => []ComparisonInv
<1>1. SafeComparisons => ComparisonInv BY DEF SafeComparisons
<1> QED BY <1>1, ComparisonsStart, ComparisonsGoOn, PTL DEF ComparisonSpec

(***************************************************************************)
(* For any sessions and pairs: a Compare link is of the two rows selected  *)
(* and of the logs shown (703-709).                                        *)
(***************************************************************************)
THEOREM ComparisonsAreOfSelection == ComparisonSpec => []ComparisonOfSelection
<1>1. SafeComparisons => ComparisonOfSelection BY DEF SafeComparisons
<1> QED BY <1>1, ComparisonsStart, ComparisonsGoOn, PTL DEF ComparisonSpec

\* What nobody else waits for stays as it is.
LEMMA OthersStaySettled ==
    ASSUME NEW token, Settled(token), entry'[token].task = entry[token].task, generations'[token] = generations[token]
    PROVE  Settled(token)'
BY DEF Settled, Task

LEMMA UpdateStaysSettled ==
    ASSUME SafeComparisons, NEW s \in Sessions, NEW logs, NEW selected, UpdateActions(s, logs, selected),
           NEW token \in DOMAIN entry, Settled(token)
    PROVE  Settled(token)'
<1> DEFINE G == Seq(Generations)
<1>1. /\ entry \in Seq(Entries) /\ token \in 1..Len(entry) /\ generations \in Seq(G) /\ Len(generations) = Len(entry)
  BY DEF SafeComparisons, ComparisonInv, ComparisonTypeOK
<1> HIDE DEF G
<1>2. \/ UNCHANGED <<entry, attempts>>
      \/ \E e : entry' = Append(entry, e) /\ generations' = Append(generations, <<>>)
  BY DEF UpdateActions
<1>3. CASE UNCHANGED <<entry, attempts>> BY <1>3, OthersStaySettled DEF attempts
<1>4. ASSUME NEW e, entry' = Append(entry, e), generations' = Append(generations, <<>>) PROVE Settled(token)'
  <2>1. entry'[token] = entry[token] /\ generations'[token] = generations[token] BY <1>1, <1>4
  <2> QED BY <2>1, OthersStaySettled
<1> QED BY <1>2, <1>3, <1>4

\* The tasks of "token" change, and those of the others do not.
LEMMA OnlyOneChanges ==
    ASSUME SafeComparisons, NEW token \in DOMAIN entry, NEW gs, NEW e, NEW other \in DOMAIN entry, other # token,
           entry' = [entry EXCEPT ![token] = e], generations' = [generations EXCEPT ![token] = gs]
    PROVE  Settled(other) => Settled(other)'
<1>1. entry'[other] = entry[other] /\ generations'[other] = generations[other]
  <2>1. other \in DOMAIN generations BY TaskFacts
  <2> QED BY <2>1
<1> QED BY <1>1, OthersStaySettled

LEMMA RequestStaysSettled ==
    ASSUME SafeComparisons, NEW token \in DOMAIN entry, Request(token), NEW other \in DOMAIN entry, Settled(other)
    PROVE  Settled(other)'
<1>1. CASE other = token
  <2>1. Task(token) # NoTask /\ generations[token][Task(token)].state = "done" BY <1>1 DEF Settled
  <2>2. UNCHANGED <<entry, generations>> BY <2>1 DEF Request
  <2> QED BY <2>2, OthersStaySettled
<1>2. CASE other # token
  <2>1. \E e, gs : entry' = [entry EXCEPT ![token] = e] /\ generations' = [generations EXCEPT ![token] = gs]
    <3>1. entry = [entry EXCEPT ![token] = entry[token]] /\ generations = [generations EXCEPT ![token] = generations[token]]
      BY TaskFacts DEF SafeComparisons, ComparisonInv, ComparisonTypeOK
    <3>2. CASE Task(token) = NoTask BY <3>2 DEF Request, Begin
    <3>3. CASE Task(token) # NoTask
      <4>1. Task(token) \in DOMAIN generations[token] /\ generations[token][Task(token)] \in Generations
        BY <3>3, TaskFacts DEF NoTask
      <4>2. generations[token][Task(token)].state \in {"running", "done", "failed"} BY <4>1 DEF Generations
      <4>3. CASE generations[token][Task(token)].state = "running" BY <3>1, <3>3, <4>3 DEF Request
      <4>4. CASE generations[token][Task(token)].state = "done" BY <3>1, <3>3, <4>4 DEF Request
      <4>5. CASE generations[token][Task(token)].state = "failed" BY <3>1, <3>3, <4>5 DEF Request, AnswerError
      <4> QED BY <4>2, <4>3, <4>4, <4>5
    <3> QED BY <3>2, <3>3
  <2> QED BY <1>2, <2>1, OnlyOneChanges
<1> QED BY <1>1, <1>2

\* A generation "g" ends, or a request that awaits it wakes.
LEMMA GenerationStaysSettled ==
    ASSUME SafeComparisons, NEW token \in DOMAIN entry, NEW g \in DOMAIN generations[token],
           Wakes(token, g) \/ \E state \in {"done", "failed"} : GenerationEnds(token, g, state),
           NEW other \in DOMAIN entry, Settled(other)
    PROVE  Settled(other)'
<1> DEFINE gs == generations[token]
<1>1. /\ gs \in Seq(Generations) /\ token \in DOMAIN generations /\ DOMAIN gs = 1..Len(gs)
      /\ \A h \in DOMAIN gs : gs[h] \in Generations
  BY TaskFacts
<1>2. entry = [entry EXCEPT ![token] = entry[token]]
  BY DEF SafeComparisons, ComparisonInv, ComparisonTypeOK
<1>3. PICK new : generations' = [generations EXCEPT ![token] = [gs EXCEPT ![g] = new]]
  BY DEF Wakes, GenerationEnds
<1>4. PICK e : entry' = [entry EXCEPT ![token] = e] BY <1>2 DEF Wakes, GenerationEnds, AnswerError
<1>5. CASE other # token
  <2> DEFINE more == [gs EXCEPT ![g] = new]
  <2>1. generations' = [generations EXCEPT ![token] = more] BY <1>3
  <2> HIDE DEF more
  <2> QED BY <1>4, <1>5, <2>1, OnlyOneChanges
<1>6. CASE other = token
  <2>1. /\ Task(token) # NoTask /\ gs[Task(token)].state = "done"
        /\ \A h \in DOMAIN gs : h # Task(token) => gs[h].waiting = 0
    BY <1>6 DEF Settled
  <2>2. Task(token) \in DOMAIN gs BY <2>1, TaskFacts DEF NoTask
  <2>3. ASSUME Wakes(token, g) PROVE Settled(token)'
    <3>1. g = Task(token) BY <2>1, <2>3 DEF Wakes
    <3>2. UNCHANGED entry BY <2>1, <2>3, <3>1 DEF Wakes
    <3>3. generations'[token] = [gs EXCEPT ![g] = [gs[g] EXCEPT !.waiting = gs[g].waiting - 1]]
      BY <1>1, <2>3 DEF Wakes
    <3>4. generations'[token][g].state = gs[g].state BY <1>1, <3>3 DEF Generations
    <3>5. DOMAIN generations'[token] = DOMAIN gs /\ \A h \in DOMAIN gs : h # g => generations'[token][h] = gs[h]
      BY <1>1, <3>3
    <3> QED BY <2>1, <3>1, <3>2, <3>4, <3>5 DEF Settled, Task
  <2>4. ASSUME NEW state \in {"done", "failed"}, GenerationEnds(token, g, state) PROVE Settled(token)'
    <3>1. g # Task(token) /\ UNCHANGED entry BY <2>1, <2>4 DEF GenerationEnds
    <3>2. generations'[token] = [gs EXCEPT ![g] = [gs[g] EXCEPT !.state = state]] BY <1>1, <2>4 DEF GenerationEnds
    <3>3. generations'[token][g].waiting = gs[g].waiting BY <1>1, <3>2 DEF Generations
    <3>4. DOMAIN generations'[token] = DOMAIN gs /\ \A h \in DOMAIN gs : h # g => generations'[token][h] = gs[h]
      BY <1>1, <3>2
    <3> QED BY <2>1, <2>2, <3>1, <3>3, <3>4 DEF Settled, Task
  <2> QED BY <1>6, <2>3, <2>4
<1> QED BY <1>5, <1>6

(***************************************************************************)
(* For any sessions, pairs, limits and times at which requests wake: what  *)
(* is made stays, once nobody waits for another task (258-264).            *)
(***************************************************************************)
THEOREM ComparisonsStay == ComparisonSpec => MadeStays
<1> DEFINE stays == \A token \in DOMAIN entry : Settled(token) => Settled(token)'
<1>1. SafeComparisons /\ [ComparisonNext]_comparisonVars => [stays]_comparisonVars
  <2> SUFFICES ASSUME SafeComparisons, [ComparisonNext]_comparisonVars, ~UNCHANGED comparisonVars,
                      NEW token \in DOMAIN entry, Settled(token)
               PROVE  Settled(token)'
    OBVIOUS
  <2>1. ASSUME NEW s \in Sessions, NEW selected \in Selections, Select(s, selected) \/ Reload(s, selected)
        PROVE  Settled(token)'
    BY <2>1, UpdateStaysSettled DEF Select, Reload
  <2>2. ASSUME NEW of \in DOMAIN entry, Request(of) PROVE Settled(token)' BY <2>2, RequestStaysSettled
  <2>3. ASSUME NEW of \in DOMAIN entry, NEW g \in DOMAIN generations[of],
               Wakes(of, g) \/ \E state \in {"done", "failed"} : GenerationEnds(of, g, state)
        PROVE  Settled(token)'
    BY <2>3, GenerationStaysSettled
  <2> QED BY <2>1, <2>2, <2>3 DEF ComparisonNext
<1>2. SafeComparisons /\ [ComparisonNext]_comparisonVars => SafeComparisons' BY ComparisonsGoOn
<1> HIDE DEF stays
<1>3. ComparisonSpec => [][stays]_comparisonVars BY <1>1, <1>2, ComparisonsStart, PTL DEF ComparisonSpec
<1> QED BY <1>3 DEF MadeStays, stays

-----------------------------------------------------------------------------
(* Previews *)

SafePreviews == PreviewInv /\ CopiedOnce

\* The tasks "ks" have different keys in "tasks".
Apart(ks, tasks) == \A i, j \in 1..Len(ks) : tasks[ks[i]].key = tasks[ks[j]].key => i = j

LEMMA NewestApart ==
    ASSUME NEW S, NEW ks \in Seq(S), NEW tasks, NEW n \in Nat \ {0}, Apart(ks, tasks)
    PROVE  Apart(Newest(ks, n), tasks)
<1> DEFINE new == Newest(ks, n)
           d == Len(ks) - Len(new)
<1>1. Len(ks) \in Nat /\ Len(new) \in Nat /\ Len(new) <= Len(ks)
      /\ \A i \in 1..Len(new) : new[i] = ks[Len(ks) - Len(new) + i]
  <2>1. Len(new) = IF Len(ks) > n THEN n ELSE Len(ks) BY NewestOf, Zenon
  <2>2. \A i \in 1..Len(new) : new[i] = ks[Len(ks) - Len(new) + i] BY NewestOf, Zenon
  <2>3. Len(ks) \in Nat /\ n \in Nat OBVIOUS
  <2> HIDE DEF new
  <2>4. Len(new) \in Nat /\ Len(new) <= Len(ks) BY <2>1, <2>3
  <2> QED BY <2>2, <2>3, <2>4, Zenon
<1> HIDE DEF new
<1>2. SUFFICES ASSUME NEW i \in 1..Len(new), NEW j \in 1..Len(new), tasks[new[i]].key = tasks[new[j]].key
      PROVE  i = j
  BY DEF Apart, new
<1>3. d + i \in 1..Len(ks) /\ d + j \in 1..Len(ks) /\ new[i] = ks[d + i] /\ new[j] = ks[d + j] BY <1>1
<1>4. d + i = d + j BY <1>2, <1>3 DEF Apart
<1> QED BY <1>1, <1>4

LEMMA RemoveApart ==
    ASSUME NEW S, NEW ks \in Seq(S), NEW tasks, NEW i \in 1..Len(ks), Apart(ks, tasks)
    PROVE  /\ Apart(RemoveAt(ks, i), tasks)
           /\ \A j \in 1..Len(RemoveAt(ks, i)) : tasks[RemoveAt(ks, i)[j]].key # tasks[ks[i]].key
<1> DEFINE rest == RemoveAt(ks, i)
           place(j) == IF j < i THEN j ELSE j + 1
<1>1. rest \in Seq(S) /\ Len(rest) = Len(ks) - 1
      /\ \A j \in 1..Len(ks) - 1 : rest[j] = IF j < i THEN ks[j] ELSE ks[j + 1]
  BY RemoveOf
<1> HIDE DEF rest
<1>2. Len(ks) \in Nat /\ i \in Nat OBVIOUS
<1>3. \A j \in 1..Len(rest) : place(j) \in 1..Len(ks) /\ place(j) # i /\ rest[j] = ks[place(j)]
  BY <1>1, <1>2
<1>4. \A j, k \in 1..Len(rest) : place(j) = place(k) => j = k
  BY <1>1, <1>2
<1> HIDE DEF place
<1>5. Apart(rest, tasks) BY <1>3, <1>4 DEF Apart
<1>6. ASSUME NEW j \in 1..Len(rest) PROVE tasks[rest[j]].key # tasks[ks[i]].key
  BY <1>3 DEF Apart
<1> QED BY <1>5, <1>6 DEF rest

LEMMA AppendApart ==
    ASSUME NEW S, NEW ks \in Seq(S), NEW tasks, NEW n, Apart(ks, tasks),
           \A j \in 1..Len(ks) : tasks[ks[j]].key # tasks[n].key
    PROVE  Apart(Append(ks, n), tasks)
<1> DEFINE new == Append(ks, n)
<1>1. Len(ks) \in Nat /\ Len(new) = Len(ks) + 1 /\ new[Len(ks) + 1] = n
      /\ \A j \in 1..Len(ks) : new[j] = ks[j]
  OBVIOUS
<1> HIDE DEF new
<1>2. \A j \in 1..Len(new) : j \in 1..Len(ks) \/ j = Len(ks) + 1 BY <1>1
<1>3. SUFFICES ASSUME NEW i \in 1..Len(new), NEW j \in 1..Len(new), tasks[new[i]].key = tasks[new[j]].key
      PROVE  i = j
  BY DEF Apart, new
<1>4. CASE i \in 1..Len(ks) /\ j \in 1..Len(ks) BY <1>1, <1>3, <1>4 DEF Apart
<1>5. CASE i = Len(ks) + 1 /\ j = Len(ks) + 1 BY <1>5
<1>6. CASE i \in 1..Len(ks) /\ j = Len(ks) + 1 BY <1>1, <1>3, <1>6
<1>7. CASE i = Len(ks) + 1 /\ j \in 1..Len(ks) BY <1>1, <1>3, <1>7
<1> QED BY <1>2, <1>4, <1>5, <1>6, <1>7

LEMMA PreviewTypes ==
    ASSUME SafePreviews
    PROVE  /\ session \in [Sessions -> Shown] /\ links \in 0..MaxLinks
           /\ address \in Seq(Addresses) /\ Len(address) <= MaxLoads /\ Len(address) \in Nat
           /\ sources \in Seq(Source) /\ Len(sources) <= SourceLimit /\ DOMAIN sources = 1..Len(sources)
           /\ task \in Seq(Tasks) /\ Len(task) <= MaxTasks /\ Len(task) \in Nat /\ DOMAIN task = 1..Len(task)
           /\ kept \in Seq(1..Len(task)) /\ Len(kept) <= TaskLimit /\ DOMAIN kept = 1..Len(kept)
           /\ downloads \in Seq(1..Len(task)) /\ Len(downloads) <= TokenLimit
           /\ DOMAIN saves = ToSet(downloads) /\ (\A n \in DOMAIN saves : saves[n] \in {0, 1})
           /\ DOMAIN saves \subseteq 1..Len(task)
           /\ waiting \subseteq 1..Len(task)
           /\ Apart(kept, task)
<1>1. /\ session \in [Sessions -> Shown] /\ links \in 0..MaxLinks
      /\ address \in Seq(Addresses) /\ Len(address) <= MaxLoads
      /\ sources \in Seq(Source) /\ Len(sources) <= SourceLimit
      /\ task \in Seq(Tasks) /\ Len(task) <= MaxTasks
      /\ kept \in Seq(DOMAIN task) /\ Len(kept) <= TaskLimit
      /\ downloads \in Seq(DOMAIN task) /\ Len(downloads) <= TokenLimit
      /\ \A n \in DOMAIN saves : saves[n] \in Nat
      /\ waiting \subseteq DOMAIN task
      /\ DOMAIN saves = ToSet(downloads)
  BY DEF SafePreviews, PreviewInv, TypeOK, SavesWithDownloads
<1>2. DOMAIN task = 1..Len(task) /\ Len(task) \in Nat BY <1>1
<1>3. kept \in Seq(1..Len(task)) /\ downloads \in Seq(1..Len(task)) BY <1>1, <1>2
<1>4. DOMAIN kept = 1..Len(kept) BY <1>3
<1>5. \A n \in DOMAIN saves : saves[n] \in {0, 1} BY <1>1 DEF SafePreviews, CopiedOnce
<1>6. ToSet(downloads) \subseteq 1..Len(task)
  <2>1. \A i \in DOMAIN downloads : downloads[i] \in 1..Len(task) BY <1>3
  <2> QED BY <2>1 DEF ToSet
<1>7. Apart(kept, task) BY <1>4 DEF Apart, SafePreviews, PreviewInv, OneTaskPerKey
<1>8. Len(address) \in Nat /\ DOMAIN sources = 1..Len(sources) BY <1>1
<1> QED BY <1>1, <1>2, <1>3, <1>4, <1>5, <1>6, <1>7, <1>8

\* The other way round.
LEMMA SafeAgain ==
    ASSUME session' \in [Sessions -> Shown'], links' \in 0..MaxLinks,
           address' \in Seq(Addresses), Len(address') <= MaxLoads,
           sources' \in Seq(Source'), Len(sources') <= SourceLimit,
           task' \in Seq(Tasks'), Len(task') <= MaxTasks,
           kept' \in Seq(1..Len(task')), Len(kept') <= TaskLimit,
           downloads' \in Seq(1..Len(task')), Len(downloads') <= TokenLimit,
           DOMAIN saves' = ToSet(downloads'), \A n \in DOMAIN saves' : saves'[n] \in {0, 1},
           waiting' \subseteq 1..Len(task'),
           Apart(kept', task'), \A n \in 1..Len(task') : task'[n].key.id = address'[task'[n].logs],
           LinkIsLoaded', LinksAreOwn'
    PROVE  SafePreviews'
<1>1. DOMAIN task' = 1..Len(task') /\ DOMAIN kept' = 1..Len(kept') OBVIOUS
<1>2. ASSUME NEW n \in DOMAIN saves' PROVE saves'[n] \in Nat /\ saves'[n] <= 1
  <2>1. saves'[n] = 0 \/ saves'[n] = 1 OBVIOUS
  <2> QED BY <2>1
<1>3. TypeOK' BY <1>1, <1>2 DEF TypeOK
<1>4. OneTaskPerKey' BY <1>1 DEF OneTaskPerKey, Apart
<1>5. SavesWithDownloads' BY DEF SavesWithDownloads
<1>6. CopiedOnce' BY <1>2 DEF CopiedOnce
<1> QED BY <1>3, <1>4, <1>5, <1>6 DEF SafePreviews, PreviewInv

\* A log, once loaded, stays where it is.
LEMMA TypesGrow ==
    ASSUME SafePreviews, address' \in Seq(Addresses), Len(address) <= Len(address')
    PROVE  /\ Shown \subseteq Shown' /\ sources \in Seq(Source') /\ task \in Seq(Tasks')
           /\ Logs \subseteq Logs'
<1>1. Len(address) \in Nat /\ Len(address') \in Nat BY PreviewTypes
<1>2. Logs \subseteq Logs' BY <1>1 DEF Logs
<1>3. Shown \subseteq Shown' /\ Source \subseteq Source' /\ Tasks \subseteq Tasks'
  BY <1>2 DEF Shown, Source, Tasks, Key
<1> HIDE DEF Source, Tasks, Shown
<1> QED BY <1>2, <1>3, PreviewTypes

LEMMA ReferencedAreLogs == ASSUME SafePreviews PROVE Referenced \subseteq Logs
<1>1. \A s \in Sessions : session[s].logs \in Logs \union {NoLogs} BY PreviewTypes DEF Shown
<1>2. \A i \in DOMAIN sources : sources[i].logs \in Logs
  <2>1. \A i \in DOMAIN sources : sources[i] \in Source BY PreviewTypes
  <2> QED BY <2>1 DEF Source
<1>3. \A n \in DOMAIN task : task[n].logs \in Logs
  <2>1. \A n \in DOMAIN task : task[n] \in Tasks BY PreviewTypes
  <2> QED BY <2>1 DEF Tasks
<1>4. Running \subseteq DOMAIN task BY DEF Running
<1>5. ToSet(kept) \subseteq DOMAIN task
  <2>1. \A i \in DOMAIN kept : kept[i] \in DOMAIN task BY PreviewTypes
  <2> QED BY <2>1 DEF ToSet
<1>6. DOMAIN saves \subseteq DOMAIN task BY PreviewTypes
<1> QED BY <1>1, <1>2, <1>3, <1>4, <1>5, <1>6 DEF Referenced

\* A link takes its place, and says nothing of the others.
LEMMA LinkedSources ==
    ASSUME SafePreviews, sources \in Seq(Source'), NEW source \in Source', sources' = Linked(source)
    PROVE  /\ sources' \in Seq(Source') /\ Len(sources') <= SourceLimit
           /\ \A i \in DOMAIN sources' :
                  \/ sources'[i] = source
                  \/ sources'[i].link # source.link /\ \E j \in DOMAIN sources : sources'[i] = sources[j]
<1>1. Len(sources) <= SourceLimit /\ Len(sources) \in Nat /\ DOMAIN sources = 1..Len(sources) BY PreviewTypes
<1>2. CASE \E i \in DOMAIN sources : sources[i].link = source.link
  <2>1. sources' = [i \in 1..Len(sources) |-> IF sources[i].link = source.link THEN source ELSE sources[i]]
    BY <1>1, <1>2 DEF Linked
  <2>2. \A i \in 1..Len(sources) : sources[i] \in Source' OBVIOUS
  <2>3. sources' \in Seq(Source') /\ Len(sources') = Len(sources) /\ DOMAIN sources' = 1..Len(sources)
    BY <1>1, <2>1, <2>2
  <2> QED BY <1>1, <2>1, <2>3
<1>3. CASE ~\E i \in DOMAIN sources : sources[i].link = source.link
  <2> DEFINE more == Append(sources, source)
             new == Newest(more, SourceLimit)
  <2>1. sources' = new BY <1>3 DEF Linked
  <2>2. more \in Seq(Source') /\ Len(more) = Len(sources) + 1 /\ more[Len(sources) + 1] = source
        /\ \A i \in 1..Len(sources) : more[i] = sources[i]
    OBVIOUS
  <2> HIDE DEF more
  <2>3. /\ new \in Seq(Source') /\ Len(new) = IF Len(more) > SourceLimit THEN SourceLimit ELSE Len(more)
        /\ \A i \in 1..Len(new) : new[i] = more[Len(more) - Len(new) + i]
    BY <2>2, NewestOf, PreviewAssumption
  <2> HIDE DEF new
  <2>4. Len(new) <= SourceLimit /\ Len(new) <= Len(more) /\ Len(new) \in Nat
    BY <1>1, <2>2, <2>3, PreviewAssumption
  <2>5. ASSUME NEW i \in 1..Len(new)
        PROVE  new[i] = source \/ (new[i].link # source.link /\ \E j \in DOMAIN sources : new[i] = sources[j])
    <3> DEFINE k == Len(more) - Len(new) + i
    <3>1. k \in 1..Len(sources) \/ k = Len(sources) + 1 BY <1>1, <2>2, <2>4
    <3>2. new[i] = more[k] BY <2>3
    <3> HIDE DEF k
    <3> QED BY <1>1, <1>3, <2>2, <3>1, <3>2
  <2>6. DOMAIN new = 1..Len(new) BY <2>3
  <2> QED BY <2>1, <2>3, <2>4, <2>5, <2>6
<1> QED BY <1>2, <1>3

\* A source that a session may link to.
LEMMA SourceFacts ==
    ASSUME SafePreviews, NEW source \in Source, NEW uid \in Uids
    PROVE  /\ KeyOf(source, uid, address) \in Key
           /\ KeyOf(source, uid, address).id = address[source.logs]
<1>1. source.logs \in 1..Len(address) BY DEF Source, Logs
<1>2. address[source.logs] \in Addresses BY <1>1, PreviewTypes
<1> QED BY <1>2 DEF KeyOf, Key, Source

LEMMA PreviewTaskKeeps ==
    ASSUME SafePreviews, NEW source \in Source, NEW uid \in Uids, PreviewTask(source, uid), UNCHANGED address
    PROVE  /\ task' \in Seq(Tasks') /\ Len(task') <= MaxTasks /\ Len(task) <= Len(task')
           /\ \A n \in 1..Len(task) : task'[n] = task[n]
           /\ kept' \in Seq(1..Len(task')) /\ Len(kept') <= TaskLimit
           /\ Apart(kept', task')
           /\ \A n \in 1..Len(task') : task'[n].key.id = address'[task'[n].logs]
           /\ Usable(KeyOf(source, uid, address)) = {} => Len(task') = Len(task) + 1
<1> DEFINE key == KeyOf(source, uid, address)
<1>1. key \in Key /\ key.id = address[source.logs] BY SourceFacts
<1> HIDE DEF key
<1>2. /\ task \in Seq(Tasks) /\ Len(task) <= MaxTasks /\ Len(task) \in Nat /\ DOMAIN task = 1..Len(task)
      /\ kept \in Seq(1..Len(task)) /\ Len(kept) <= TaskLimit /\ DOMAIN kept = 1..Len(kept) /\ Len(kept) \in Nat
      /\ Apart(kept, task)
  BY PreviewTypes
<1>3. Tasks' = Tasks BY DEF Tasks, Key, Logs
<1>4. \A n \in 1..Len(task) : task[n].key.id = address[task[n].logs]
  BY <1>2 DEF SafePreviews, PreviewInv, OneTaskPerKey
<1>5. Places(key) \subseteq 1..Len(kept) /\ \A i \in 1..Len(kept) : i \in Places(key) <=> task[kept[i]].key = key
  BY <1>2 DEF Places
<1>6. CASE Usable(key) # {}
  <2>1. PICK i \in 1..Len(kept) : kept' = Append(RemoveAt(kept, i), kept[i])
    BY <1>5, <1>6 DEF PreviewTask, Reuse, key
  <2>2. task' = task BY <1>6 DEF PreviewTask, key
  <2> DEFINE rest == RemoveAt(kept, i)
  <2>3. rest \in Seq(1..Len(task)) /\ Len(rest) = Len(kept) - 1 /\ Apart(rest, task)
        /\ \A j \in 1..Len(rest) : task[rest[j]].key # task[kept[i]].key
    <3>1. rest \in Seq(1..Len(task)) /\ Len(rest) = Len(kept) - 1 BY <1>2, RemoveOf
    <3>2. Apart(rest, task) /\ \A j \in 1..Len(rest) : task[rest[j]].key # task[kept[i]].key
      BY <1>2, RemoveApart
    <3> QED BY <3>1, <3>2
  <2> HIDE DEF rest
  <2>4. kept[i] \in 1..Len(task) BY <1>2
  <2>5. kept' \in Seq(1..Len(task)) /\ Len(kept') = Len(kept)
    <3>1. kept' = Append(rest, kept[i]) BY <2>1 DEF rest
    <3>2. rest \in Seq(1..Len(task)) BY <2>3
    <3>3. kept' \in Seq(1..Len(task)) /\ Len(kept') = Len(rest) + 1 BY <2>4, <3>1, <3>2
    <3> QED BY <1>2, <2>3, <3>3
  <2>6. Apart(kept', task') BY <2>1, <2>2, <2>3, AppendApart DEF rest
  <2>7. task' \in Seq(Tasks') /\ Len(task') <= MaxTasks /\ Len(task) <= Len(task') /\ Len(kept') <= TaskLimit
    <3> HIDE DEF Tasks
    <3> QED BY <1>2, <1>3, <2>2, <2>5
  <2>8. \A n \in 1..Len(task') : task'[n].key.id = address'[task'[n].logs] BY <1>4, <2>2
  <2>9. Usable(KeyOf(source, uid, address)) # {} BY <1>6 DEF key
  <2>10. \A n \in 1..Len(task) : task'[n] = task[n] BY <2>2
  <2>11. kept' \in Seq(1..Len(task')) BY <2>2, <2>5
  <2> QED BY <2>6, <2>7, <2>8, <2>9, <2>10, <2>11
<1>7. CASE Usable(key) = {}
  <2> DEFINE made == Len(task) + 1
             new == [key |-> key, logs |-> source.logs, state |-> "running"]
  <2>1. MakeTask(key, source.logs) BY <1>7 DEF PreviewTask, key
  <2>2. Len(task) < MaxTasks /\ task' = Append(task, new) BY <2>1 DEF MakeTask
  <2>3. new \in Tasks BY <1>1 DEF Tasks, Source
  <2>4. task' \in Seq(Tasks) /\ Len(task') = made /\ task'[made] = new /\ (\A n \in 1..Len(task) : task'[n] = task[n])
    BY <1>2, <2>2, <2>3
  <2>5. /\ new.key.id = address'[new.logs] /\ \A n \in 1..Len(task') : n \in 1..Len(task) \/ n = made
    BY <1>1, <1>2, <2>4
  <2>6. \A n \in 1..Len(task') : task'[n].key.id = address'[task'[n].logs] BY <1>4, <2>4, <2>5
  <2>7. PICK rest \in Seq(1..Len(task)) :
            /\ Apart(rest, task) /\ (\A j \in 1..Len(rest) : task[rest[j]].key # key)
            /\ kept' = Newest(Append(rest, made), TaskLimit)
    <3>1. CASE Places(key) = {}
      <4>1. kept' = Newest(Append(kept, made), TaskLimit) BY <2>1, <3>1 DEF MakeTask
      <4> QED BY <1>2, <1>5, <3>1, <4>1
    <3>2. CASE Places(key) # {}
      <4>1. PICK i \in Places(key) : kept' = Newest(Append(RemoveAt(kept, i), made), TaskLimit)
        BY <2>1, <3>2 DEF MakeTask
      <4>2. i \in 1..Len(kept) /\ task[kept[i]].key = key BY <1>5
      <4>3. RemoveAt(kept, i) \in Seq(1..Len(task)) /\ Apart(RemoveAt(kept, i), task)
            /\ \A j \in 1..Len(RemoveAt(kept, i)) : task[RemoveAt(kept, i)[j]].key # key
        <5>1. RemoveAt(kept, i) \in Seq(1..Len(task)) BY <1>2, <4>2, RemoveOf
        <5>2. /\ Apart(RemoveAt(kept, i), task)
              /\ \A j \in 1..Len(RemoveAt(kept, i)) : task[RemoveAt(kept, i)[j]].key # task[kept[i]].key
          BY <1>2, <4>2, RemoveApart
        <5> QED BY <4>2, <5>1, <5>2
      <4> QED BY <4>1, <4>3
    <3> QED BY <3>1, <3>2
  <2>8. /\ rest \in Seq(1..made) /\ Apart(rest, task') /\ \A j \in 1..Len(rest) : task'[rest[j]].key # task'[made].key
    <3>1. \A j \in 1..Len(rest) : rest[j] \in 1..Len(task) BY <2>7
    <3>2. \A j \in 1..Len(rest) : task'[rest[j]] = task[rest[j]] BY <2>4, <3>1
    <3>3. \A u \in 1..Len(task) : u \in 1..made BY <1>2
    <3>4. rest \in Seq(1..made) BY <2>7, <3>3
    <3>5. task'[made].key = key BY <2>4
    <3>6. Apart(rest, task') BY <2>7, <3>2 DEF Apart
    <3>7. \A j \in 1..Len(rest) : task'[rest[j]].key # key BY <2>7, <3>2
    <3> HIDE DEF new, made
    <3> QED BY <3>4, <3>5, <3>6, <3>7
  <2> HIDE DEF new
  <2>9. Append(rest, made) \in Seq(1..made) /\ Apart(Append(rest, made), task')
    <3>1. made \in 1..made BY <1>2
    <3>2. Append(rest, made) \in Seq(1..made) BY <2>8, <3>1
    <3> QED BY <2>8, <3>2, AppendApart
  <2>10. kept' \in Seq(1..made) /\ Len(kept') <= TaskLimit /\ Apart(kept', task')
    <3> DEFINE more == Append(rest, made)
    <3>1. TaskLimit \in Nat \ {0} BY PreviewAssumption
    <3>2. more \in Seq(1..made) /\ Apart(more, task') /\ kept' = Newest(more, TaskLimit) BY <2>7, <2>9
    <3> HIDE DEF more
    <3>3. /\ Newest(more, TaskLimit) \in Seq(1..made) /\ Apart(Newest(more, TaskLimit), task')
          /\ Len(Newest(more, TaskLimit)) = IF Len(more) > TaskLimit THEN TaskLimit ELSE Len(more)
      BY <3>1, <3>2, NewestOf, NewestApart
    <3>4. Len(more) \in Nat BY <3>2
    <3> QED BY <3>1, <3>2, <3>3, <3>4
  <2>11. task' \in Seq(Tasks') /\ Len(task') <= MaxTasks /\ Len(task) <= Len(task') /\ Len(task') = Len(task) + 1
    <3> HIDE DEF Tasks
    <3>1. task' \in Seq(Tasks') BY <1>3, <2>4
    <3>2. Len(task') = Len(task) + 1 BY <2>4
    <3>3. Len(task') <= MaxTasks BY <1>2, <2>2, <3>2, PreviewAssumption
    <3> QED BY <1>2, <3>1, <3>2, <3>3
  <2>12. kept' \in Seq(1..Len(task')) BY <2>4, <2>10
  <2> QED BY <2>4, <2>6, <2>10, <2>11, <2>12
<1> QED BY <1>6, <1>7

\* Sessions and links stay as they are.
LEMMA SameLinks ==
    ASSUME SafePreviews, UNCHANGED <<session, links, sources>>
    PROVE  LinkIsLoaded' /\ LinksAreOwn'
BY DEF SafePreviews, PreviewInv, LinkIsLoaded, LinksAreOwn

LEMMA SameAddress == ASSUME UNCHANGED address PROVE Source' = Source /\ Tasks' = Tasks /\ Shown' = Shown
BY DEF Source, Tasks, Shown, Key, Logs

\* A step of the tasks, tokens, copies and waiting requests only.
LEMMA TaskStepKeeps ==
    ASSUME SafePreviews, UNCHANGED <<session, links, address, sources>>,
           task' \in Seq(Tasks), Len(task') <= MaxTasks,
           kept' \in Seq(1..Len(task')), Len(kept') <= TaskLimit,
           downloads' \in Seq(1..Len(task')), Len(downloads') <= TokenLimit,
           DOMAIN saves' = ToSet(downloads'), \A n \in DOMAIN saves' : saves'[n] \in {0, 1},
           waiting' \subseteq 1..Len(task'),
           Apart(kept', task'), \A n \in 1..Len(task') : task'[n].key.id = address[task'[n].logs]
    PROVE  SafePreviews'
<1>1. LinkIsLoaded' /\ LinksAreOwn' BY SameLinks
<1>2. Source' = Source /\ Tasks' = Tasks /\ Shown' = Shown BY SameAddress
<1>3. /\ session' \in [Sessions -> Shown'] /\ links' \in 0..MaxLinks
      /\ address' \in Seq(Addresses) /\ Len(address') <= MaxLoads
      /\ sources' \in Seq(Source') /\ Len(sources') <= SourceLimit
      /\ task' \in Seq(Tasks')
      /\ \A n \in 1..Len(task') : task'[n].key.id = address'[task'[n].logs]
  BY <1>2, PreviewTypes
<1> HIDE DEF Source, Tasks, Shown
<1> QED BY <1>1, <1>3, SafeAgain

LEMMA NewlyShown ==
    ASSUME NEW r \in Shown, NEW link \in 0..MaxLinks, NEW logs \in Logs'
    PROVE  [r EXCEPT !.link = link, !.logs = logs] \in Shown'
BY DEF Shown

LEMMA NumbersGrow ==
    ASSUME NEW m \in Nat, NEW n \in Nat, m <= n, NEW numbers \in Seq(1..m)
    PROVE  numbers \in Seq(1..n)
<1>1. 1..m \subseteq 1..n OBVIOUS
<1> QED BY <1>1

LEMMA LoadLogsKeeps ==
    ASSUME SafePreviews, NEW s \in Sessions, NEW logs, NEW live \in BOOLEAN,
           address' \in Seq(Addresses), Len(address') <= MaxLoads, Len(address) <= Len(address'),
           \A l \in 1..Len(address) : address'[l] = address[l],
           logs \in Logs', IF live THEN session[s].logs # NoLogs ELSE links < MaxLinks,
           LoadLogs(s, logs, live)
    PROVE  SafePreviews'
<1> DEFINE link == IF live THEN session[s].link ELSE links + 1
           source == [link |-> link, logs |-> logs, options |-> session[s].options]
           shown == [session[s] EXCEPT !.link = link, !.logs = logs]
<1>1. /\ links' = (IF live THEN links ELSE links + 1) /\ session' = [session EXCEPT ![s] = shown]
      /\ sources' = Linked(source)
      /\ UNCHANGED <<task, kept, downloads, saves, waiting>>
  BY DEF LoadLogs
<1>2. /\ session \in [Sessions -> Shown] /\ links \in Nat /\ links <= MaxLinks /\ session[s] \in Shown
      /\ session[s].link \in 0..MaxLinks /\ session[s].options \in Options
  BY PreviewTypes DEF Shown
<1>3. /\ \A t, u \in Sessions : t # u /\ session[t].link = session[u].link => session[t].link = 0
      /\ \A t \in Sessions : session[t].link <= links /\ session[t].link \in Nat
                             /\ (session[t].logs # NoLogs <=> session[t].link # 0)
      /\ \A i \in DOMAIN sources : sources[i].link <= links
  BY <1>2 DEF SafePreviews, PreviewInv, LinksAreOwn, Shown
<1>4. link \in 1..MaxLinks /\ link <= links' /\ links' \in 0..MaxLinks /\ links <= links' /\ links' \in Nat
  BY <1>1, <1>2, <1>3, PreviewAssumption
<1>5. \A t \in Sessions : t # s => session[t].link # link
  <2>1. CASE live BY <1>3, <1>4, <2>1
  <2>2. CASE ~live BY <1>2, <1>3, <2>2
  <2> QED BY <2>1, <2>2
<1>6. source \in Source' /\ shown \in Shown' /\ shown.link = link /\ shown.logs = logs /\ shown.options = session[s].options
  <2> HIDE DEF link
  <2>1. source \in Source' BY <1>2, <1>4 DEF Source
  <2>2. link \in 0..MaxLinks /\ link \in 1..MaxLinks BY <1>4, PreviewAssumption
  <2>3. shown.link = link /\ shown.logs = logs /\ shown.options = session[s].options BY <1>2 DEF Shown
  <2>4. shown \in Shown' BY <1>2, <2>2, NewlyShown
  <2> QED BY <2>1, <2>3, <2>4
<1> HIDE DEF link, shown
<1>7. Shown \subseteq Shown' /\ sources \in Seq(Source') /\ task \in Seq(Tasks') BY TypesGrow
<1>8. /\ sources' \in Seq(Source') /\ Len(sources') <= SourceLimit
      /\ \A i \in DOMAIN sources' :
             \/ sources'[i] = source
             \/ sources'[i].link # link /\ \E j \in DOMAIN sources : sources'[i] = sources[j]
  BY <1>1, <1>6, <1>7, LinkedSources
<1>9. session'[s] = shown /\ (\A t \in Sessions : t # s => session'[t] = session[t]) /\ session' \in [Sessions -> Shown']
  BY <1>1, <1>2, <1>6, <1>7
<1>10. LinkIsLoaded'
  <2>1. SUFFICES ASSUME NEW t \in Sessions, NEW i \in DOMAIN sources', sources'[i].link = session'[t].link
        PROVE  sources'[i].logs = session'[t].logs /\ sources'[i].options = session'[t].options
    BY DEF LinkIsLoaded
  <2>2. CASE sources'[i] = source
    <3>1. t = s BY <1>5, <1>9, <2>1, <2>2
    <3> QED BY <1>6, <1>9, <2>2, <3>1
  <2>3. CASE sources'[i].link # link /\ \E j \in DOMAIN sources : sources'[i] = sources[j]
    <3>1. t # s /\ session'[t] = session[t] BY <1>6, <1>9, <2>1, <2>3
    <3> QED BY <2>1, <2>3, <3>1 DEF SafePreviews, PreviewInv, LinkIsLoaded
  <2> QED BY <1>8, <2>2, <2>3
<1>11. LinksAreOwn'
  <2>1. \A t, u \in Sessions : t # u /\ session'[t].link = session'[u].link => session'[t].link = 0
    BY <1>3, <1>5, <1>6, <1>9
  <2>2. ASSUME NEW t \in Sessions
        PROVE  session'[t].link <= links' /\ (session'[t].logs # NoLogs <=> session'[t].link # 0)
    <3>1. CASE t = s
      <4>1. logs # NoLogs BY DEF Logs, NoLogs
      <4> QED BY <1>4, <1>6, <1>9, <3>1, <4>1
    <3>2. CASE t # s
      <4>1. session'[t] = session[t] /\ session[t].link <= links /\ session[t].link \in Nat BY <1>3, <1>9, <3>2
      <4> QED BY <1>2, <1>3, <1>4, <4>1
    <3> QED BY <3>1, <3>2
  <2>3. ASSUME NEW i \in DOMAIN sources' PROVE sources'[i].link <= links'
    <3>1. CASE sources'[i] = source BY <1>4, <3>1
    <3>2. CASE \E j \in DOMAIN sources : sources'[i] = sources[j]
      <4>1. PICK j \in DOMAIN sources : sources'[i] = sources[j] BY <3>2
      <4>2. sources[j].link \in Nat
        <5>1. sources[j] \in Source BY PreviewTypes
        <5> QED BY <5>1 DEF Source
      <4> QED BY <1>2, <1>3, <1>4, <4>1, <4>2
    <3> QED BY <1>8, <3>1, <3>2
  <2> QED BY <2>1, <2>2, <2>3 DEF LinksAreOwn
<1>12. \A n \in 1..Len(task) : task[n].key.id = address'[task[n].logs]
  <2>1. \A n \in 1..Len(task) : task[n] \in Tasks BY PreviewTypes
  <2>2. \A n \in 1..Len(task) : task[n].logs \in 1..Len(address) BY <2>1 DEF Tasks, Logs
  <2>3. \A n \in 1..Len(task) : task[n].key.id = address[task[n].logs]
    BY PreviewTypes DEF SafePreviews, PreviewInv, OneTaskPerKey
  <2> QED BY <2>2, <2>3
<1> HIDE DEF source, Source, Shown, Tasks
<1> QED BY <1>1, <1>4, <1>7, <1>8, <1>9, <1>10, <1>11, <1>12, PreviewTypes, SafeAgain

LEMMA LoadKeeps ==
    ASSUME SafePreviews, NEW s \in Sessions, NEW live \in BOOLEAN, Load(s, live)
    PROVE  SafePreviews'
<1>1. IF live THEN session[s].logs # NoLogs ELSE links < MaxLinks BY DEF Load
<1>2. address \in Seq(Addresses) /\ Len(address) <= MaxLoads /\ Len(address) \in Nat BY PreviewTypes
<1>3. CASE /\ Len(address) < MaxLoads
           /\ \E a \in Addresses \ {address[l] : l \in Referenced} : address' = Append(address, a)
           /\ LoadLogs(s, Len(address) + 1, live)
  <2>1. PICK a \in Addresses : address' = Append(address, a) BY <1>3
  <2>2. /\ address' \in Seq(Addresses) /\ Len(address') = Len(address) + 1
        /\ \A l \in 1..Len(address) : address'[l] = address[l]
    BY <1>2, <2>1
  <2>3. Len(address') <= MaxLoads /\ Len(address) <= Len(address') /\ Len(address) + 1 \in 1..Len(address')
    BY <1>2, <1>3, <2>2, StoresAssumption
  <2>4. Len(address) + 1 \in Logs' BY <2>3 DEF Logs
  <2> QED BY <1>1, <1>3, <2>2, <2>3, <2>4, LoadLogsKeeps
<1>4. CASE (\E l \in Referenced \ {session[s].logs} : LoadLogs(s, l, live)) /\ UNCHANGED address
  <2>1. PICK l \in Referenced : LoadLogs(s, l, live) BY <1>4
  <2>2. l \in Logs' BY <1>4, ReferencedAreLogs DEF Logs
  <2>3. address' \in Seq(Addresses) /\ Len(address') <= MaxLoads /\ Len(address) <= Len(address')
    BY <1>2, <1>4
  <2> QED BY <1>1, <1>4, <2>1, <2>2, <2>3, LoadLogsKeeps
<1> QED BY <1>3, <1>4 DEF Load

\* The sources of a link are of its session, while it is kept.
LEMMA ChangeOptionsKeeps ==
    ASSUME SafePreviews, NEW s \in Sessions, NEW options \in Options,
           NEW selected \in {{}} \union {{uid} : uid \in Uids}, ChangeOptions(s, options, selected)
    PROVE  SafePreviews'
<1> DEFINE source == [link |-> session[s].link, logs |-> session[s].logs, options |-> options]
           shown == [session[s] EXCEPT !.options = options]
<1>1. /\ session' = [session EXCEPT ![s] = shown]
      /\ UNCHANGED <<links, address, downloads, saves, waiting>>
  BY DEF ChangeOptions
<1>2. session \in [Sessions -> Shown] /\ session[s] \in Shown /\ Source' = Source /\ Tasks' = Tasks /\ Shown' = Shown
  BY <1>1, PreviewTypes, SameAddress
<1>3. shown \in Shown /\ shown.link = session[s].link /\ shown.logs = session[s].logs /\ shown.options = options
  BY <1>2 DEF Shown
<1> HIDE DEF shown
<1>4. session'[s] = shown /\ (\A t \in Sessions : t # s => session'[t] = session[t]) /\ session' \in [Sessions -> Shown]
  BY <1>1, <1>2, <1>3
<1>5. \A t \in Sessions : session'[t].link = session[t].link /\ session'[t].logs = session[t].logs
  BY <1>3, <1>4
<1>6. \A t, u \in Sessions : t # u /\ session[t].link = session[u].link => session[t].link = 0
  BY DEF SafePreviews, PreviewInv, LinksAreOwn
<1>7. /\ sources \in Seq(Source) /\ Len(sources) <= SourceLimit /\ DOMAIN sources = 1..Len(sources)
      /\ task \in Seq(Tasks) /\ Len(task) <= MaxTasks /\ Len(task) \in Nat
      /\ kept \in Seq(1..Len(task)) /\ Len(kept) <= TaskLimit /\ Apart(kept, task)
      /\ downloads \in Seq(1..Len(task))
      /\ DOMAIN saves \subseteq 1..Len(task) /\ waiting \subseteq 1..Len(task)
  BY PreviewTypes
<1>8. \A i \in DOMAIN sources : sources[i].link \in 1..MaxLinks
  <2>1. \A i \in DOMAIN sources : sources[i] \in Source BY <1>7
  <2> QED BY <2>1 DEF Source
<1>9. \A n \in 1..Len(task) : task[n].key.id = address[task[n].logs]
  BY PreviewTypes DEF SafePreviews, PreviewInv, OneTaskPerKey
\* The links are right in either case.
<1>10. /\ sources' \in Seq(Source) /\ Len(sources') <= SourceLimit
       /\ \A i \in DOMAIN sources' :
              \/ sources'[i] = source
              \/ sources'[i].link # session[s].link /\ \E j \in DOMAIN sources : sources'[i] = sources[j]
       /\ (\E i \in DOMAIN sources : sources[i].link = session[s].link) => source \in Source
  <2>1. CASE \E i \in DOMAIN sources : sources[i].link = source.link
    <3>1. sources' = Linked(source) BY <2>1 DEF ChangeOptions
    <3>2. PICK i \in DOMAIN sources : sources[i].link = session[s].link BY <2>1
    <3>3. session[s].link \in 1..MaxLinks BY <1>8, <3>2
    <3>4. session[s].logs # NoLogs BY <3>3 DEF SafePreviews, PreviewInv, LinksAreOwn
    <3>5. session[s].logs \in Logs BY <1>2, <3>4 DEF Shown
    <3>6. source \in Source BY <3>3, <3>5 DEF Source
    <3> HIDE DEF Source
    <3> QED BY <1>2, <1>7, <3>1, <3>6, LinkedSources
  <2>2. CASE ~\E i \in DOMAIN sources : sources[i].link = source.link
    <3>1. sources' = sources BY <2>2 DEF ChangeOptions
    <3> QED BY <1>7, <2>2, <3>1
  <2> QED BY <2>1, <2>2
<1>11. LinkIsLoaded'
  <2>1. SUFFICES ASSUME NEW t \in Sessions, NEW i \in DOMAIN sources', sources'[i].link = session'[t].link
        PROVE  sources'[i].logs = session'[t].logs /\ sources'[i].options = session'[t].options
    BY DEF LinkIsLoaded
  <2>2. CASE sources'[i] = source
    <3>1. session[s].link = session[t].link BY <1>5, <2>1, <2>2
    <3>2. i \in 1..Len(sources') /\ sources'[i] \in Source BY <1>10
    <3>3. session[t].link # 0 BY <1>5, <2>1, <3>2 DEF Source
    <3>4. t = s BY <1>6, <3>1, <3>3
    <3> QED BY <1>3, <1>4, <2>2, <3>4
  <2>3. CASE sources'[i].link # session[s].link /\ \E j \in DOMAIN sources : sources'[i] = sources[j]
    <3>1. t # s /\ session'[t] = session[t] BY <1>4, <1>5, <2>1, <2>3
    <3> QED BY <2>1, <2>3, <3>1 DEF SafePreviews, PreviewInv, LinkIsLoaded
  <2> QED BY <1>10, <2>2, <2>3
<1>12. LinksAreOwn'
  <2>1. /\ \A t, u \in Sessions : t # u /\ session[t].link = session[u].link => session[t].link = 0
        /\ \A t \in Sessions : session[t].link <= links /\ (session[t].logs # NoLogs <=> session[t].link # 0)
        /\ \A i \in DOMAIN sources : sources[i].link <= links
    BY DEF SafePreviews, PreviewInv, LinksAreOwn
  <2>2. \A i \in DOMAIN sources' : sources'[i].link <= links BY <1>10, <2>1
  <2> QED BY <1>1, <1>5, <2>1, <2>2 DEF LinksAreOwn
<1>13. /\ task' \in Seq(Tasks) /\ Len(task') <= MaxTasks /\ Len(task) <= Len(task')
       /\ kept' \in Seq(1..Len(task')) /\ Len(kept') <= TaskLimit
       /\ Apart(kept', task')
       /\ \A n \in 1..Len(task') : task'[n].key.id = address'[task'[n].logs]
  <2>1. CASE UNCHANGED <<task, kept>>
    <3> HIDE DEF Tasks
    <3> QED BY <1>1, <1>7, <1>9, <2>1
  <2>2. CASE (\E i \in DOMAIN sources : sources[i].link = session[s].link) /\ selected # {}
    <3>1. PICK uid \in Uids : selected = {uid} BY <2>2
    <3>2. PreviewTask(source, uid) /\ source \in Source BY <1>10, <2>2, <3>1 DEF ChangeOptions
    <3> HIDE DEF source, Source, Tasks
    <3> QED BY <1>1, <1>2, <3>2, PreviewTaskKeeps
  <2> QED BY <2>1, <2>2 DEF ChangeOptions
<1>14. downloads' \in Seq(1..Len(task')) /\ waiting' \subseteq 1..Len(task')
  <2>1. Len(task') \in Nat BY <1>13
  <2>2. \A u \in 1..Len(task) : u \in 1..Len(task') BY <1>7, <1>13, <2>1
  <2>3. downloads \in Seq(1..Len(task')) BY <1>7, <1>13, <2>1, NumbersGrow
  <2>4. waiting \subseteq 1..Len(task') BY <1>7, <2>2
  <2> QED BY <1>1, <2>3, <2>4
<1>15. Len(downloads') <= TokenLimit /\ DOMAIN saves' = ToSet(downloads') /\ \A n \in DOMAIN saves' : saves'[n] \in {0, 1}
  BY <1>1, PreviewTypes DEF ToSet
<1>16. links' \in 0..MaxLinks /\ address' \in Seq(Addresses) /\ Len(address') <= MaxLoads
  BY <1>1, PreviewTypes
<1> HIDE DEF source, Source, Shown, Tasks
<1> QED BY <1>2, <1>4, <1>10, <1>11, <1>12, <1>13, <1>14, <1>15, <1>16, SafeAgain

LEMMA SelectRowKeeps ==
    ASSUME SafePreviews, NEW s \in Sessions, NEW uid \in Uids, SelectRow(s, uid)
    PROVE  SafePreviews'
<1>1. PICK i \in DOMAIN sources : PreviewTask(sources[i], uid) BY DEF SelectRow
<1>2. UNCHANGED <<session, links, address, sources, downloads, saves, waiting>> BY DEF SelectRow
<1>3. sources[i] \in Source BY PreviewTypes
<1>4. Tasks' = Tasks BY <1>2, SameAddress
<1> HIDE DEF Source, Tasks
<1>5. /\ task' \in Seq(Tasks) /\ Len(task') <= MaxTasks /\ Len(task) <= Len(task')
      /\ kept' \in Seq(1..Len(task')) /\ Len(kept') <= TaskLimit
      /\ Apart(kept', task')
      /\ \A n \in 1..Len(task') : task'[n].key.id = address'[task'[n].logs]
  BY <1>1, <1>2, <1>3, <1>4, PreviewTaskKeeps
<1>6. \A u \in 1..Len(task) : u \in 1..Len(task') BY <1>5, PreviewTypes
<1>7. downloads \in Seq(1..Len(task')) /\ waiting \subseteq 1..Len(task')
  <2>1. downloads \in Seq(1..Len(task)) /\ waiting \subseteq 1..Len(task) BY PreviewTypes
  <2>2. downloads \in Seq(1..Len(task')) BY <1>6, <2>1
  <2>3. waiting \subseteq 1..Len(task') BY <1>6, <2>1
  <2> QED BY <2>2, <2>3
<1>8. Len(downloads') <= TokenLimit /\ DOMAIN saves' = ToSet(downloads') /\ \A n \in DOMAIN saves' : saves'[n] \in {0, 1}
  BY <1>2, PreviewTypes DEF ToSet
<1>9. downloads' \in Seq(1..Len(task')) /\ waiting' \subseteq 1..Len(task') /\ UNCHANGED <<session, links, address, sources>>
  BY <1>2, <1>7
<1>10. \A n \in 1..Len(task') : task'[n].key.id = address[task'[n].logs] BY <1>2, <1>5
<1> QED BY <1>5, <1>8, <1>9, <1>10, TaskStepKeeps

LEMMA CopyStartedFacts ==
    ASSUME SafePreviews, NEW n
    PROVE  DOMAIN CopyStarted(n) = DOMAIN saves /\ \A m \in DOMAIN CopyStarted(n) : CopyStarted(n)[m] \in {0, 1}
BY PreviewTypes DEF CopyStarted

\* What a request finds: at most one task, and that not failed.
LEMMA UsableFacts ==
    ASSUME SafePreviews, NEW key
    PROVE  /\ Usable(key) \subseteq 1..Len(task)
           /\ \A n \in Usable(key) : task[n].key = key /\ task[n].state # "failed"
<1>1. kept \in Seq(1..Len(task)) /\ DOMAIN kept = 1..Len(kept) BY PreviewTypes
<1>2. \A i \in Places(key) : kept[i] \in 1..Len(task) /\ task[kept[i]].key = key BY <1>1 DEF Places
<1> QED BY <1>2 DEF Usable, Found

LEMMA OpenKeeps ==
    ASSUME SafePreviews, NEW i \in DOMAIN sources, NEW uid \in Uids, Open(sources[i], uid)
    PROVE  /\ SafePreviews'
           /\ \A n \in waiting' \ waiting : n \in DOMAIN task => task[n].state # "failed"
<1> DEFINE source == sources[i]
           found == Usable(KeyOf(source, uid, address))
           finished == {n \in found : task[n].state = "done"}
<1>1. /\ PreviewTask(source, uid) /\ UNCHANGED <<session, links, address, sources, downloads>>
      /\ IF finished # {} THEN (\A n \in finished : saves' = CopyStarted(n)) /\ UNCHANGED waiting
         ELSE waiting' = waiting \union (IF found = {} THEN {Len(task) + 1} ELSE found) /\ UNCHANGED saves
  BY DEF Open
<1>2. sources[i] \in Source BY PreviewTypes
<1>3. Tasks' = Tasks BY <1>1, SameAddress
<1>4. found \subseteq 1..Len(task) /\ \A n \in found : task[n].state # "failed" BY UsableFacts
<1>5. /\ task' \in Seq(Tasks) /\ Len(task') <= MaxTasks /\ Len(task) <= Len(task')
      /\ kept' \in Seq(1..Len(task')) /\ Len(kept') <= TaskLimit
      /\ Apart(kept', task')
      /\ \A n \in 1..Len(task') : task'[n].key.id = address'[task'[n].logs]
      /\ found = {} => Len(task') = Len(task) + 1
  <2> HIDE DEF Source, Tasks
  <2> QED BY <1>1, <1>2, <1>3, PreviewTaskKeeps
<1> HIDE DEF Source, Tasks, source, found, finished
<1>6. Len(task) \in Nat /\ DOMAIN task = 1..Len(task) /\ waiting \subseteq 1..Len(task) /\ downloads \in Seq(1..Len(task))
  BY PreviewTypes
<1>7. \A u \in 1..Len(task) : u \in 1..Len(task') BY <1>5, <1>6
<1>8. downloads' \in Seq(1..Len(task'))
  <2>1. downloads \in Seq(1..Len(task')) BY <1>6, <1>7
  <2> QED BY <1>1, <2>1
<1>9. waiting' \subseteq 1..Len(task') /\ \A n \in waiting' \ waiting : n = Len(task) + 1 \/ n \in found
  <2>1. waiting \subseteq 1..Len(task') BY <1>6, <1>7
  <2>2. found \subseteq 1..Len(task') BY <1>4, <1>7
  <2>3. found = {} => Len(task) + 1 \in 1..Len(task') BY <1>5, <1>6
  <2> QED BY <1>1, <2>1, <2>2, <2>3
<1>10. DOMAIN saves' = ToSet(downloads') /\ \A n \in DOMAIN saves' : saves'[n] \in {0, 1}
  <2>1. DOMAIN saves = ToSet(downloads') BY <1>1, PreviewTypes DEF ToSet
  <2>2. saves' = saves \/ \E n \in finished : saves' = CopyStarted(n) BY <1>1
  <2> QED BY <2>1, <2>2, CopyStartedFacts, PreviewTypes
<1>11. Len(downloads') <= TokenLimit BY <1>1, PreviewTypes
<1>12. \A n \in 1..Len(task') : task'[n].key.id = address[task'[n].logs] BY <1>1, <1>5
<1>13. SafePreviews' BY <1>1, <1>5, <1>8, <1>9, <1>10, <1>11, <1>12, TaskStepKeeps
<1>14. Len(task) + 1 \notin DOMAIN task BY <1>6
<1> QED BY <1>4, <1>9, <1>13, <1>14

\* A task ends: its key stays.
LEMMA EndedTask ==
    ASSUME SafePreviews, NEW n \in DOMAIN task, NEW state \in {"done", "failed"}, task' = [task EXCEPT ![n].state = state]
    PROVE  /\ task' \in Seq(Tasks) /\ Len(task') = Len(task) /\ Apart(kept, task')
           /\ \A m \in 1..Len(task') : task'[m].key.id = address[task'[m].logs]
<1>1. task \in Seq(Tasks) /\ DOMAIN task = 1..Len(task) /\ kept \in Seq(1..Len(task)) /\ Apart(kept, task)
      /\ \A m \in 1..Len(task) : task[m].key.id = address[task[m].logs]
  BY PreviewTypes DEF SafePreviews, PreviewInv, OneTaskPerKey
<1>2. task[n] \in Tasks BY <1>1
<1>3. /\ [task[n] EXCEPT !.state = state] \in Tasks
      /\ [task[n] EXCEPT !.state = state].key = task[n].key /\ [task[n] EXCEPT !.state = state].logs = task[n].logs
  BY <1>2 DEF Tasks
<1> HIDE DEF Tasks
<1>4. /\ task' \in Seq(Tasks) /\ Len(task') = Len(task)
      /\ \A m \in 1..Len(task) : task'[m].key = task[m].key /\ task'[m].logs = task[m].logs
  BY <1>1, <1>3
<1>5. \A j \in 1..Len(kept) : kept[j] \in 1..Len(task) BY <1>1
<1> QED BY <1>1, <1>4, <1>5 DEF Apart

LEMMA GeneratedKeeps ==
    ASSUME SafePreviews, NEW n \in DOMAIN task, Generated(n)
    PROVE  SafePreviews'
<1> DEFINE more == Append(downloads, n)
           copies == [m \in DOMAIN saves \union {n} |-> IF m = n THEN 0 ELSE saves[m]]
<1>1. /\ task' = [task EXCEPT ![n].state = "done"] /\ downloads' = Newest(more, TokenLimit)
      /\ saves' = Expired(downloads', copies)
      /\ UNCHANGED <<session, links, address, sources, kept, waiting>>
  BY DEF Generated
<1>2. /\ task' \in Seq(Tasks) /\ Len(task') = Len(task) /\ Apart(kept, task')
      /\ \A m \in 1..Len(task') : task'[m].key.id = address[task'[m].logs]
  BY <1>1, EndedTask
<1>3. more \in Seq(1..Len(task)) /\ \A i \in 1..Len(more) : more[i] \in DOMAIN saves \union {n}
  <2>1. downloads \in Seq(1..Len(task)) /\ n \in 1..Len(task) /\ DOMAIN saves = ToSet(downloads) BY PreviewTypes
  <2>2. \A i \in 1..Len(downloads) : downloads[i] \in DOMAIN saves
    <3>1. DOMAIN downloads = 1..Len(downloads) BY <2>1
    <3> QED BY <2>1, <3>1 DEF ToSet
  <2>3. Len(more) = Len(downloads) + 1 /\ \A i \in 1..Len(more) : more[i] = IF i = Len(downloads) + 1 THEN n ELSE downloads[i]
    BY <2>1
  <2>4. Len(downloads) \in Nat BY <2>1
  <2>5. \A i \in 1..Len(more) : i = Len(downloads) + 1 \/ i \in 1..Len(downloads) BY <2>3, <2>4
  <2>6. more \in Seq(1..Len(task)) BY <2>1
  <2> HIDE DEF more
  <2> QED BY <2>2, <2>3, <2>5, <2>6
<1> HIDE DEF more
<1>4. /\ downloads' \in Seq(1..Len(task)) /\ Len(downloads') <= TokenLimit
      /\ \A i \in 1..Len(downloads') : downloads'[i] \in DOMAIN saves \union {n}
  <2>1. TokenLimit \in Nat \ {0} BY StoresAssumption
  <2> DEFINE new == Newest(more, TokenLimit)
  <2>2. /\ new \in Seq(1..Len(task)) /\ Len(new) = IF Len(more) > TokenLimit THEN TokenLimit ELSE Len(more)
        /\ \A i \in 1..Len(new) : new[i] = more[Len(more) - Len(new) + i]
    BY <1>3, <2>1, NewestOf
  <2> HIDE DEF new
  <2>3. Len(more) \in Nat /\ Len(new) \in Nat BY <1>3, <2>2
  <2>4. Len(new) <= TokenLimit /\ Len(new) <= Len(more) BY <2>1, <2>2, <2>3
  <2>5. \A i \in 1..Len(new) : Len(more) - Len(new) + i \in 1..Len(more) BY <2>3, <2>4
  <2>6. \A i \in 1..Len(new) : new[i] \in DOMAIN saves \union {n} BY <1>3, <2>2, <2>5
  <2> QED BY <1>1, <2>2, <2>4, <2>6 DEF new
<1>5. ToSet(downloads') \subseteq DOMAIN saves \union {n}
  <2>1. DOMAIN downloads' = 1..Len(downloads') BY <1>4
  <2> QED BY <1>4, <2>1 DEF ToSet
<1>6. saves' = [m \in ToSet(downloads') |-> copies[m]] BY <1>1 DEF Expired
<1>7. DOMAIN saves' = ToSet(downloads') BY <1>6
<1>8. ASSUME NEW m \in DOMAIN saves' PROVE saves'[m] \in {0, 1}
  <2>1. m \in DOMAIN saves \union {n} /\ saves'[m] = copies[m] BY <1>5, <1>6, <1>7
  <2>2. copies[m] = IF m = n THEN 0 ELSE saves[m] BY <2>1
  <2>3. m # n => saves[m] \in {0, 1} BY <2>1, PreviewTypes
  <2> QED BY <2>1, <2>2, <2>3
<1> HIDE DEF copies
<1>9. /\ Len(task') <= MaxTasks /\ kept' \in Seq(1..Len(task')) /\ Len(kept') <= TaskLimit /\ Apart(kept', task')
      /\ downloads' \in Seq(1..Len(task')) /\ waiting' \subseteq 1..Len(task')
  BY <1>1, <1>2, <1>4, PreviewTypes
<1> HIDE DEF Tasks
<1> QED BY <1>1, <1>2, <1>4, <1>7, <1>8, <1>9, TaskStepKeeps

LEMMA FailedTaskKeeps ==
    ASSUME SafePreviews, NEW n \in DOMAIN task, Failed(n)
    PROVE  SafePreviews'
<1>1. /\ task' = [task EXCEPT ![n].state = "failed"]
      /\ UNCHANGED <<session, links, address, sources, kept, downloads, saves, waiting>>
  BY DEF Failed
<1>2. /\ task' \in Seq(Tasks) /\ Len(task') = Len(task) /\ Apart(kept, task')
      /\ \A m \in 1..Len(task') : task'[m].key.id = address[task'[m].logs]
  BY <1>1, EndedTask
<1> HIDE DEF Tasks
<1>3. /\ Len(task') <= MaxTasks /\ kept' \in Seq(1..Len(task')) /\ Len(kept') <= TaskLimit /\ Apart(kept', task')
      /\ downloads' \in Seq(1..Len(task')) /\ Len(downloads') <= TokenLimit /\ waiting' \subseteq 1..Len(task')
  BY <1>1, <1>2, PreviewTypes
<1>4. DOMAIN saves' = ToSet(downloads') /\ \A m \in DOMAIN saves' : saves'[m] \in {0, 1}
  BY <1>1, PreviewTypes DEF ToSet
<1> QED BY <1>1, <1>2, <1>3, <1>4, TaskStepKeeps

LEMMA AnswerKeeps ==
    ASSUME SafePreviews, NEW n \in DOMAIN task, Answer(n)
    PROVE  SafePreviews'
<1>1. /\ waiting' = waiting \ {n} /\ saves' = CopyStarted(n)
      /\ UNCHANGED <<session, links, address, sources, task, kept, downloads>>
  BY DEF Answer
<1>2. DOMAIN saves' = ToSet(downloads') /\ \A m \in DOMAIN saves' : saves'[m] \in {0, 1}
  BY <1>1, CopyStartedFacts, PreviewTypes DEF ToSet
<1>3. \A m \in 1..Len(task') : task'[m].key.id = address[task'[m].logs]
  BY <1>1, PreviewTypes DEF SafePreviews, PreviewInv, OneTaskPerKey
<1> HIDE DEF Tasks
<1>4. /\ task' \in Seq(Tasks) /\ Len(task') <= MaxTasks
      /\ kept' \in Seq(1..Len(task')) /\ Len(kept') <= TaskLimit /\ Apart(kept', task')
      /\ downloads' \in Seq(1..Len(task')) /\ Len(downloads') <= TokenLimit /\ waiting' \subseteq 1..Len(task')
  BY <1>1, PreviewTypes
<1> QED BY <1>1, <1>2, <1>3, <1>4, TaskStepKeeps

LEMMA PreviewsGoOn ==
    SafePreviews /\ [Next]_vars =>
        /\ SafePreviews'
        /\ [\A n \in waiting' \ waiting : n \in DOMAIN task => task[n].state # "failed"]_vars
<1> DEFINE tried == \A n \in waiting' \ waiting : n \in DOMAIN task => task[n].state # "failed"
<1> SUFFICES ASSUME SafePreviews, [Next]_vars PROVE SafePreviews' /\ [tried]_vars OBVIOUS
<1>1. ASSUME NEW s \in Sessions, NEW live \in BOOLEAN, Load(s, live) PROVE SafePreviews' /\ tried
  <2>1. waiting' = waiting BY <1>1 DEF Load, LoadLogs
  <2> QED BY <1>1, <2>1, LoadKeeps
<1>2. ASSUME NEW s \in Sessions, NEW options \in Options, NEW selected \in {{}} \union {{uid} : uid \in Uids},
             ChangeOptions(s, options, selected)
      PROVE  SafePreviews' /\ tried
  <2>1. waiting' = waiting BY <1>2 DEF ChangeOptions
  <2> QED BY <1>2, <2>1, ChangeOptionsKeeps
<1>3. ASSUME NEW s \in Sessions, NEW uid \in Uids, SelectRow(s, uid) PROVE SafePreviews' /\ tried
  <2>1. waiting' = waiting BY <1>3 DEF SelectRow
  <2> QED BY <1>3, <2>1, SelectRowKeeps
<1>4. ASSUME NEW i \in DOMAIN sources, NEW uid \in Uids, Open(sources[i], uid) PROVE SafePreviews' /\ tried
  BY <1>4, OpenKeeps
<1>5. ASSUME NEW n \in DOMAIN task, Generated(n) \/ Failed(n) \/ Answer(n) PROVE SafePreviews' /\ tried
  <2>1. waiting' \subseteq waiting BY <1>5 DEF Generated, Failed, Answer
  <2> QED BY <1>5, <2>1, GeneratedKeeps, FailedTaskKeeps, AnswerKeeps
<1>6. CASE UNCHANGED vars
  <2>1. SafePreviews'
    BY <1>6 DEF vars, SafePreviews, PreviewInv, CopiedOnce, TypeOK, LinkIsLoaded, SavesWithDownloads, LinksAreOwn,
                OneTaskPerKey, Source, Tasks, Shown, Logs, Key, ToSet
  <2> QED BY <1>6, <2>1
<1> HIDE DEF tried
<1> QED BY <1>1, <1>2, <1>3, <1>4, <1>5, <1>6 DEF Next

LEMMA PreviewsStart == Init => SafePreviews
<1> SUFFICES ASSUME Init PROVE SafePreviews OBVIOUS
<1>1. /\ session = [s \in Sessions |-> [link |-> 0, logs |-> NoLogs, options |-> FirstOptions]]
      /\ links = 0 /\ address = <<>> /\ sources = <<>> /\ task = <<>> /\ kept = <<>> /\ downloads = <<>>
      /\ saves = <<>> /\ waiting = {}
      /\ DOMAIN sources = {} /\ DOMAIN task = {} /\ DOMAIN kept = {} /\ DOMAIN downloads = {} /\ DOMAIN saves = {}
  BY DEF Init
<1>2. [link |-> 0, logs |-> NoLogs, options |-> FirstOptions] \in Shown
  BY PreviewAssumption DEF Shown
<1>3. session \in [Sessions -> Shown] BY <1>1, <1>2
<1>4. links \in 0..MaxLinks BY <1>1, PreviewAssumption
<1>5. /\ address \in Seq(Addresses) /\ Len(address) <= MaxLoads
      /\ sources \in Seq(Source) /\ Len(sources) <= SourceLimit
      /\ task \in Seq(Tasks) /\ Len(task) <= MaxTasks
  <2> HIDE DEF Source, Tasks
  <2> QED BY <1>1, PreviewAssumption, StoresAssumption
<1>6. /\ kept \in Seq(DOMAIN task) /\ Len(kept) <= TaskLimit
      /\ downloads \in Seq(DOMAIN task) /\ Len(downloads) <= TokenLimit
  BY <1>1, PreviewAssumption, StoresAssumption
<1>7. TypeOK BY <1>1, <1>3, <1>4, <1>5, <1>6 DEF TypeOK
<1>8. ToSet(downloads) = {} BY <1>1 DEF ToSet
<1>9. LinkIsLoaded /\ SavesWithDownloads /\ OneTaskPerKey /\ CopiedOnce
  BY <1>1, <1>8 DEF LinkIsLoaded, SavesWithDownloads, OneTaskPerKey, CopiedOnce
<1>10. LinksAreOwn BY <1>1 DEF LinksAreOwn
<1> QED BY <1>7, <1>9, <1>10 DEF SafePreviews, PreviewInv

\* Equal keys are of one address, and so of one source.
LEMMA ReuseIsCurrent == SafePreviews => PreviewsReused
<1> SUFFICES ASSUME SafePreviews, IsInjective(address) PROVE PreparedIsCurrent
  BY DEF PreviewsReused, ReusedWhileUnchanged, SafePreviews
<1>1. SUFFICES ASSUME NEW i \in DOMAIN sources, NEW uid \in Uids, NEW n \in Prepared(sources[i], uid)
      PROVE  task[n].logs = sources[i].logs
  BY DEF PreparedIsCurrent
<1>2. n \in 1..Len(task) /\ task[n].key = KeyOf(sources[i], uid, address) BY UsableFacts DEF Prepared
<1>3. sources[i] \in Source /\ task[n] \in Tasks BY <1>2, PreviewTypes
<1>4. sources[i].logs \in 1..Len(address) /\ task[n].logs \in 1..Len(address) BY <1>3 DEF Source, Tasks, Logs
<1>5. task[n].key.id = address[sources[i].logs] BY <1>2, <1>3, SourceFacts
<1>6. task[n].key.id = address[task[n].logs]
  BY <1>2, PreviewTypes DEF SafePreviews, PreviewInv, OneTaskPerKey
<1>7. DOMAIN address = 1..Len(address) BY PreviewTypes
<1> QED BY <1>4, <1>5, <1>6, <1>7 DEF IsInjective

(***************************************************************************)
(* For any sessions, transactions, options and limits: the tables stay     *)
(* within their limits, a link is of what its session shows, a key has one *)
(* task, and tokens and copies leave together (web_app.py:144-184, 656).   *)
(***************************************************************************)
THEOREM PreviewInvariant == Spec => []PreviewInv
<1>1. SafePreviews => PreviewInv BY DEF SafePreviews
<1> QED BY <1>1, PreviewsStart, PreviewsGoOn, PTL DEF Spec

(***************************************************************************)
(* For any sessions and limits: a log is copied once, and what is opened   *)
(* again is of the logs shown, as long as no address is used twice (147,   *)
(* 195).                                                                   *)
(***************************************************************************)
THEOREM PreviewsAreReused == Spec => []PreviewsReused
BY ReuseIsCurrent, PreviewsStart, PreviewsGoOn, PTL DEF Spec

(***************************************************************************)
(* A request never waits for a task that has failed before (150-151).      *)
(***************************************************************************)
THEOREM FailuresAreTriedAgain == Spec => FailureTriedAgain
BY PreviewsStart, PreviewsGoOn, PTL DEF Spec, FailureTriedAgain
=============================================================================
