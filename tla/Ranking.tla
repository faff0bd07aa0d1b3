--------------------------------- MODULE Ranking ---------------------------------
(***************************************************************************)
(* How results are scored and ranked (launcher-search: lib.rs, fuzzy.rs;     *)
(* the boosts of launcher-core). Pure functions: a behaviour picks an input  *)
(* and computes its answer. Scores are twice the code's, so that its halves   *)
(* are whole numbers. How a text matches a query is a tier; the characters    *)
(* matter in fuzzy_score only (its twin fuzzy_match has no caller).           *)
(***************************************************************************)
EXTENDS Integers, Sequences, FiniteSets

CONSTANTS Chars, Separator,  \* the alphabet of the fuzzy matcher
          MaxText, MaxQuery, \* lengths
          Candidates,        \* what providers may answer
          Limit, None

VARIABLES input, output
vars == <<input, output>>

BoundedMin(a, b) == IF a <= b THEN a ELSE b
BoundedMax(a, b) == IF a >= b THEN a ELSE b

-----------------------------------------------------------------------------
(* fuzzy_score; the places it has found, `at`, are a history of the scan. *)

PREFIX_SCORE == 200
GAP_CAP == 60
Start == [score |-> 0, gap |-> 0, qi |-> 1, prev |-> 0, run |-> 0, boundary |-> TRUE, at |-> <<>>]

\* One character of the candidate.
Scan(c, q, s, i) ==
    LET hit == s.qi <= Len(q) /\ c[i] = q[s.qi]
        next_to == s.prev # 0 /\ i = s.prev + 1
        run0 == IF s.boundary THEN 0 ELSE s.run
        run == IF next_to THEN run0 + 1 ELSE 0
        skipped == IF s.prev = 0 \/ next_to THEN 0 ELSE i - s.prev - 1
        matched == [s EXCEPT
            !.score = @ + (IF s.boundary THEN 24 ELSE 0)
                        + (IF next_to THEN 12 + 2 * BoundedMin(run, 5) ELSE 0),
            !.gap = BoundedMin(@ + 3 * skipped, GAP_CAP),
            !.qi = @ + 1, !.prev = i, !.run = run, !.at = Append(@, i)]
    IN [(IF hit THEN matched ELSE s) EXCEPT !.boundary = c[i] = Separator]

\* What the scan holds after each character.
Scanning(c, q) ==
    LET scan[i \in 0 .. Len(c)] == IF i = 0 THEN Start ELSE Scan(c, q, scan[i - 1], i) IN scan
Scanned(c, q) == Scanning(c, q)[Len(c)]
Scored(c, q) ==
    LET s == Scanned(c, q) IN IF s.qi <= Len(q) THEN None ELSE BoundedMax(s.score - s.gap, 0)

\* Compares what there is: a candidate shorter than the query counts as its prefix.
Prefixed(c, q) == \A i \in 1 .. BoundedMin(Len(c), Len(q)) : c[i] = q[i]
fuzzy_score(c, q) ==
    IF q = <<>> \/ c = <<>> THEN None
    ELSE IF Prefixed(c, q) THEN PREFIX_SCORE ELSE Scored(c, q)

-----------------------------------------------------------------------------
(* The score of a command. *)

type_prior == [Application |-> 50, Folder |-> 40, Command |-> 30, Plugin |-> 20, File |-> 0]
title_word == 170
plugin_hint == 90
plugin_hint_matched == 30
multi_token == 60

best_title_score == [exact |-> 200, prefix |-> 120, contains |-> 80, none |-> 0]
keyword_score    == [exact |-> 100, prefix |-> 50, contains |-> 30, none |-> 0]

\* The title as a whole, or one of its words, which counts less than a whole title.
TitleScore(c) == BoundedMax(best_title_score[c.title], BoundedMin(best_title_score[c.word], title_word))

\* Every keyword that matches adds up.
KeywordScores(tiers) ==
    LET sum[i \in 0 .. Len(tiers)] == IF i = 0 THEN 0 ELSE sum[i - 1] + keyword_score[tiers[i]]
    IN sum
KeywordScore(c) == KeywordScores(c.keywords)[Len(c.keywords)]

\* A hint counts in full, and the fuzzy matcher is asked, only when no text matched; all
\* tokens of a query of several may be found where the query as a whole is not.
score(c) ==
    LET text == TitleScore(c) + KeywordScore(c)
        hint == c.hint * (IF text > 0 THEN plugin_hint_matched ELSE plugin_hint)
        matched == text + hint + (IF text = 0 /\ c.hint = 0 THEN c.fuzzy ELSE 0)
                     + (IF c.tokens > 1 /\ c.has_all THEN multi_token ELSE 0)
    IN IF matched > 0 THEN matched + type_prior[c.category] ELSE 0

\* Core::usage_boost: 3 a use up to 10 uses, 12 within a day, 6 within a week. Favorites
\* and context are given with the candidate.
usage_boost(c) == IF c.uses = 0 THEN 0 ELSE 6 * BoundedMin(c.uses, 10) + c.recency
favorite_and_context_boost(c) == usage_boost(c) + c.favorite + c.context

Total(c) == IF score(c) > 0 THEN score(c) + favorite_and_context_boost(c) ELSE 0

-----------------------------------------------------------------------------
(* The list. *)

search_identity_key(c) ==
    IF c.category \in {"Application", "File", "Folder"} /\ c.target # None
      THEN <<"path", c.target>> ELSE <<"command", c.provider, c.id>>

\* Sorted by score, then provider, then id, which are numbers here; each command once.
Before(a, b) ==
    \/ Total(a) > Total(b)
    \/ Total(a) = Total(b) /\ a.provider < b.provider
    \/ Total(a) = Total(b) /\ a.provider = b.provider /\ a.id <= b.id
Sorted(cs) ==
    CHOOSE list \in [1 .. Cardinality(cs) -> cs] :
        /\ \A c \in cs : \E i \in DOMAIN list : list[i] = c
        /\ \A i, j \in DOMAIN list : i < j => list[i] # list[j] /\ Before(list[i], list[j])

\* The best of each identity stays, with the actions of those it replaces.
Same(cs, c) == {d \in cs : search_identity_key(d) = search_identity_key(c)}
Kept_any(cs) == {CHOOSE c \in Same(cs, d) : TRUE : d \in cs}
Kept(cs) == {c \in cs : \A d \in Same(cs, c) : Before(c, d)}
Merged(cs, c) == [command |-> c, actions |-> UNION {d.actions : d \in Same(cs, c)}]

\* The same provider's second answer of the same id goes without leaving anything.
Once(cs) == {c \in cs : \A d \in cs : d.provider = c.provider /\ d.id = c.id => Total(d) <= Total(c)}

rank_with_boost(all) ==
    LET cs == Once({c \in all : Total(c) > 0})
    IN [i \in 1 .. BoundedMin(Limit, Cardinality(Kept(cs))) |-> Merged(cs, Sorted(Kept(cs))[i])]

-----------------------------------------------------------------------------
Texts(n) == UNION {[1 .. k -> Chars] : k \in 0 .. n}
Told(cs) == \A c, d \in cs : c.provider = d.provider /\ c.id = d.id /\ c # d => Total(c) # Total(d)
OneQuery(cs) == \A c, d \in cs : c.tokens = d.tokens

\* The same id twice with the same score stays in the order of the answers: left out.
Init ==
    /\ \/ input \in [kind : {"fuzzy"}, text : Texts(MaxText), query : Texts(MaxQuery)]
       \/ \E c, d, e \in Candidates : /\ Told({c, d, e}) /\ OneQuery({c, d, e})
                                      /\ input = [kind |-> "rank", all |-> {c, d, e}]
    /\ output = None

Answer ==
    IF input.kind = "rank" THEN rank_with_boost(input.all)
    ELSE <<fuzzy_score(input.text, input.query)>>

Compute ==
    /\ output = None
    /\ output' = Answer
    /\ UNCHANGED input

Next == Compute
Spec == Init /\ [][Next]_vars

TypeOK == output # None => (input.kind = "rank" => Len(output) <= Limit)

-----------------------------------------------------------------------------
\* rank_with_boost: one entry for each identity, in the order of the scores; whatever
\* matched, or the better answer its provider gave under its id, is in the list as itself or
\* as a better one of its identity, unless the list is full of better ones; what such an
\* entry replaces leaves its actions ("identity collapse must not discard source metadata or
\* alternative actions", search/lib.rs:403-406).
RankKeepsBest ==
    output # None /\ input.kind = "rank" =>
        /\ \A i, j \in DOMAIN output : i < j =>
              /\ Total(output[i].command) >= Total(output[j].command)
              /\ search_identity_key(output[i].command) # search_identity_key(output[j].command)
        /\ \A c \in input.all : score(c) > 0 => \E d \in input.all :
              /\ d.provider = c.provider /\ d.id = c.id /\ Total(d) >= Total(c)
              /\ c \in Once(input.all) => d = c
              /\ \/ \E i \in DOMAIN output :
                       /\ search_identity_key(output[i].command) = search_identity_key(d)
                       /\ Total(output[i].command) >= Total(d)
                       /\ d.actions \subseteq output[i].actions
                 \/ /\ Len(output) = Limit
                    /\ \A i \in DOMAIN output : Total(output[i].command) >= Total(d)

IsSubsequence(q, c) ==
    \E f \in [DOMAIN q -> DOMAIN c] :
        \A i, j \in DOMAIN q : c[f[i]] = q[i] /\ (i < j => f[i] < f[j])

\* fuzzy_score: wherever the candidate is as long as the query, one greedy pass that never
\* goes back finds exactly the subsequences.
FuzzyFinds ==
    output # None /\ input.kind = "fuzzy" /\ Len(input.text) >= Len(input.query) /\ input.query # <<>> =>
        (output[1] # None <=> IsSubsequence(input.query, input.text))

\* The list shows the best of all that matched, and the fuzzy matcher overlooks nothing.
RankingSound == RankKeepsBest /\ FuzzyFinds

-----------------------------------------------------------------------------
\* What the source says of itself and does not keep.

\* Core::usage_boost: "enough to reorder within a match class (contains vs prefix), never
\* enough to beat an exact match".
ExactStaysFirst ==
    output # None /\ input.kind = "rank" =>
        \A i, j \in DOMAIN output :
            LET c == output[i].command  d == output[j].command IN
            c.title = "exact" /\ d.title # "exact" /\ d.favorite + d.context = 0 /\ score(c) > score(d)
                => i < j

\* fuzzy.rs, fuzzy_score: "Returns None when the query is not a subsequence of the
\* candidate". No run checks it.
FuzzyIsSubsequence ==
    output # None /\ input.kind = "fuzzy" /\ output[1] # None => IsSubsequence(input.query, input.text)
=============================================================================
