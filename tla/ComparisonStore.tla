--------------------------- MODULE ComparisonStore ---------------------------
(***************************************************************************)
(* Comparisons of two transactions in the web interface (web_app.py,       *)
(* 234-264 and 701-743).  Selecting two rows prepares a link with a token  *)
(* of its own, kept with those of all sessions up to a limit; the page     *)
(* behind the link asks for the comparison, which one task makes for all   *)
(* requests that come until it fails.                                      *)
(***************************************************************************)
EXTENDS WebStores

CONSTANTS
    Pairs,          \* two transactions to select
    MaxTokens,      \* bound: tokens made
    MaxRequests     \* bound: requests for comparisons, of all tokens

NoPair == {}

ASSUME ComparisonAssumption == NoPair \notin Pairs /\ MaxTokens \in Nat /\ MaxRequests \in Nat

VARIABLES
    compare,        \* of each session: loaded, table.selected, comparison_key, comparison_url
    entry,          \* of all tokens so far: the entry in COMPARISONS; its task is a generation, or none
    comparisons,    \* the tokens in COMPARISONS, the oldest first
    generations,    \* of all tokens: the tasks made for it, each with the requests that await it
    errors,         \* of all tokens: requests answered with an error so far
    requests        \* bounded: requests so far

attempts == <<generations, errors, requests>>
comparisonVars == <<compare, entry, comparisons, generations, errors, requests>>

NoUrl == 0
NoKey == <<>>
NoTask == 0
Selections == Pairs \union {NoPair}

Entries == [session : Sessions, logs : 0..MaxLoads, uids : Pairs, task : Nat]
Generations == [state : {"running", "done", "failed"}, waiting : Nat]
Compares(tokens) ==
    [logs : 0..MaxLoads, selected : Selections, key : ((0..MaxLoads) \X Pairs) \union {NoKey}, url : 0..tokens]

ComparisonTypeOK ==
    /\ entry \in Seq(Entries) /\ Len(entry) <= MaxTokens
    /\ compare \in [Sessions -> Compares(Len(entry))]
    /\ comparisons \in Seq(1..Len(entry))
    /\ generations \in Seq(Seq(Generations)) /\ Len(generations) = Len(entry)
    /\ errors \in Seq(Nat) /\ Len(errors) = Len(entry)
    /\ requests \in 0..MaxRequests

ComparisonInit ==
    /\ compare = [s \in Sessions |-> [logs |-> 0, selected |-> NoPair, key |-> NoKey, url |-> NoUrl]]
    /\ entry = <<>> /\ comparisons = <<>> /\ generations = <<>> /\ errors = <<>> /\ requests = 0

-----------------------------------------------------------------------------
\* Mutant: the key says nothing of what is loaded.
SelectionKey(logs, selected) == IF selected = NoPair THEN NoKey ELSE <<0, selected>>

ComparisonKey(logs, selected) == IF selected = NoPair THEN NoKey ELSE <<logs, selected>>

\* update_actions: another key makes another link, or none.
UpdateActions(s, logs, selected) ==
    LET key == ComparisonKey(logs, selected)
        token == Len(entry) + 1 IN
    IF key = compare[s].key
    THEN /\ compare' = [compare EXCEPT ![s].logs = logs, ![s].selected = selected]
         /\ UNCHANGED <<entry, comparisons, attempts>>
    ELSE IF key = NoKey
    THEN /\ compare' = [compare EXCEPT ![s] = [logs |-> logs, selected |-> selected, key |-> NoKey, url |-> NoUrl]]
         /\ UNCHANGED <<entry, comparisons, attempts>>
    ELSE /\ token <= MaxTokens
         /\ compare' = [compare EXCEPT ![s] = [logs |-> logs, selected |-> selected, key |-> key, url |-> token]]
         /\ entry' = Append(entry, [session |-> s, logs |-> logs, uids |-> selected, task |-> NoTask])
         /\ comparisons' = Newest(Append(comparisons, token), TokenLimit)
         /\ generations' = Append(generations, <<>>) /\ errors' = Append(errors, 0)
         /\ UNCHANGED requests

\* selection_changed; toolbar_compare does the same with the rows as they are.
Select(s, selected) ==
    /\ compare[s].logs # 0
    /\ UpdateActions(s, compare[s].logs, selected)

\* A load takes the selection away; a live update keeps what is still listed.
Reload(s, selected) ==
    /\ compare[s].logs < MaxLoads
    /\ selected \in {NoPair, compare[s].selected}
    /\ UpdateActions(s, compare[s].logs + 1, selected)

-----------------------------------------------------------------------------
Task(token) == entry[token].task

\* A task begins, with the request that awaits it.
Begin(token) ==
    /\ generations' = [generations EXCEPT ![token] = Append(@, [state |-> "running", waiting |-> 1])]
    /\ entry' = [entry EXCEPT ![token].task = Len(generations[token]) + 1]
    /\ UNCHANGED errors

\* except: the entry forgets its task, whichever that is now.
AnswerError(token) ==
    /\ entry' = [entry EXCEPT ![token].task = NoTask]
    /\ errors' = [errors EXCEPT ![token] = @ + 1]

NewRequest(token) ==
    /\ token \in ToSet(comparisons)
    /\ requests < MaxRequests /\ requests' = requests + 1
    /\ UNCHANGED <<compare, comparisons>>

\* Mutant: each request makes the comparison.
GenerateAgain(token) == NewRequest(token) /\ Begin(token)

\* comparison_data, up to where it waits.  Nothing is awaited for a task that
\* has ended: its result is the answer, its error is answered and forgotten.
Request(token) ==
    /\ NewRequest(token)
    /\ IF Task(token) = NoTask THEN Begin(token)
       ELSE CASE generations[token][Task(token)].state = "running" ->
                     /\ generations' = [generations EXCEPT ![token][Task(token)].waiting = @ + 1]
                     /\ UNCHANGED <<entry, errors>>
              [] generations[token][Task(token)].state = "done" -> UNCHANGED <<entry, generations, errors>>
              [] generations[token][Task(token)].state = "failed" -> AnswerError(token) /\ UNCHANGED generations

\* generate: both logs are written, published and compared, or a step raises.
GenerationEnds(token, g, state) ==
    /\ generations[token][g].state = "running"
    /\ generations' = [generations EXCEPT ![token][g].state = state]
    /\ UNCHANGED <<compare, entry, comparisons, errors, requests>>

\* Mutant: the entry forgets its task with every answer (a finally).
WakesAndForgets(token, g) ==
    /\ generations[token][g].state # "running" /\ generations[token][g].waiting > 0
    /\ generations' = [generations EXCEPT ![token][g].waiting = @ - 1]
    /\ entry' = [entry EXCEPT ![token].task = NoTask]
    /\ UNCHANGED <<compare, comparisons, requests, errors>>

\* A request that awaits a task wakes when the task has ended, each at a time
\* of its own, and others may have come before it.
Wakes(token, g) ==
    /\ generations[token][g].state # "running" /\ generations[token][g].waiting > 0
    /\ generations' = [generations EXCEPT ![token][g].waiting = @ - 1]
    /\ IF generations[token][g].state = "failed" THEN AnswerError(token) ELSE UNCHANGED <<entry, errors>>
    /\ UNCHANGED <<compare, comparisons, requests>>

ComparisonNext ==
    \/ \E s \in Sessions, selected \in Selections : Select(s, selected) \/ Reload(s, selected)
    \/ \E token \in DOMAIN entry :
        \/ Request(token)
        \/ \E g \in DOMAIN generations[token] :
            Wakes(token, g) \/ \E state \in {"done", "failed"} : GenerationEnds(token, g, state)

ComparisonSpec == ComparisonInit /\ [][ComparisonNext]_comparisonVars
-----------------------------------------------------------------------------
(***************************************************************************)
(* The Compare link of a session compares the two rows that are selected   *)
(* in it, of the logs it shows, also when a live update has replaced the   *)
(* logs and kept the selection (703-709).                                  *)
(***************************************************************************)
ComparisonOfSelection ==
    \A s \in Sessions : compare[s].url # NoUrl =>
        LET e == entry[compare[s].url] IN
        e.session = s /\ e.logs = compare[s].logs /\ e.uids = compare[s].selected

(***************************************************************************)
(* However often the page is loaded, a comparison is made a second time    *)
(* only after a request for it was answered with an error, a third time    *)
(* only after two were, and so on, whenever those that waited for a failed *)
(* task wake (258-264).                                                    *)
(***************************************************************************)
MadeOnceMoreThanFailed ==
    \A token \in DOMAIN entry :
        /\ Task(token) \in {NoTask, Len(generations[token])}
        /\ Len(generations[token]) <= errors[token] + IF Task(token) = NoTask THEN 0 ELSE 1

\* While nothing has failed, no request is answered with an error.
ErrorsAreFailures ==
    \A token \in DOMAIN entry :
        errors[token] > 0 => \E g \in DOMAIN generations[token] : generations[token][g].state = "failed"

\* The tokens kept are the newest of all sessions.
KeepsNewest ==
    /\ Len(comparisons) = IF Len(entry) > TokenLimit THEN TokenLimit ELSE Len(entry)
    /\ \A i \in DOMAIN comparisons : comparisons[i] = Len(entry) - Len(comparisons) + i

\* A session has a link exactly when two rows are selected.
LinkOfKey ==
    \A s \in Sessions :
        /\ compare[s].key = ComparisonKey(compare[s].logs, compare[s].selected)
        /\ compare[s].url = NoUrl <=> compare[s].key = NoKey

(***************************************************************************)
(* The tokens stay within their limit for as many sessions as share them   *)
(* (710-713), and a comparison is made once unless it fails (258-264).     *)
(***************************************************************************)
ComparisonInv == ComparisonTypeOK /\ MadeOnceMoreThanFailed /\ ErrorsAreFailures /\ KeepsNewest /\ LinkOfKey

\* The comparison is made, and nobody waits for another task of the entry.
Settled(token) ==
    /\ Task(token) # NoTask /\ generations[token][Task(token)].state = "done"
    /\ \A g \in DOMAIN generations[token] : g # Task(token) => generations[token][g].waiting = 0

(***************************************************************************)
(* A comparison that is made stays, and its page can be loaded again       *)
(* without making it again, once those that waited for a task that failed  *)
(* before have got their error: until then one of them may take the new    *)
(* task from the entry (262-263).                                          *)
(***************************************************************************)
MadeStays == [][\A token \in DOMAIN entry : Settled(token) => Settled(token)']_comparisonVars
=============================================================================
