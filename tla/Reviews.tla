------------------------------ MODULE Reviews ------------------------------
(***************************************************************************)
(* The review of saved requests by a model (services/ai_audit.py,          *)
(* routers/audit.py): administrators choose requests, each worker reviews  *)
(* one after the other, and what the model said of an excerpt is kept in   *)
(* Redis for a week.  Two administrators may choose the same requests.     *)
(***************************************************************************)
EXTENDS Integers, Sequences, FiniteSets

CONSTANTS
    Reviewers,     \* calls of review_requests
    Logs,          \* requests with a saved body
    ExcerptOf,     \* [log -> excerpt]
    Short,         \* excerpts under MIN_CHARS
    Chosen,        \* [reviewer -> sequence of logs]
    Blocked,       \* excerpts of which the model says that they are to be blocked
    MaxFaults      \* bound on failures of the model and of Redis

ASSUME ReviewsAssumption == Chosen \in [Reviewers -> Seq(Logs)] /\ MaxFaults \in Nat

VARIABLES
    review,      \* [log -> ai_review]: "", "clear", "flagged", "skipped", "unavailable"
    verdicts,    \* the cache: excerpts with a verdict
    reviewer,    \* [reviewer -> [at, seen, step]]
    calls,       \* history: [excerpt -> number of calls of the model that answered]
    overlaps,    \* history: excerpts that were being sent twice at a time, or whose cache failed
    reviewFaults

reviewVars == <<review, verdicts, reviewer, calls, overlaps, reviewFaults>>

ExcerptSet == {ExcerptOf[l] : l \in Logs}

\* is_final
Final(verdict) == verdict \in {"clear", "skipped", "flagged"}
Verdict(e) == IF e \in Blocked THEN "flagged" ELSE "clear"

InitReviews ==
    /\ review = [l \in Logs |-> ""] /\ verdicts = {}
    /\ reviewer = [r \in Reviewers |-> [at |-> 0, seen |-> review, step |-> "new"]]
    /\ calls = [e \in ExcerptSet |-> 0] /\ overlaps = {} /\ reviewFaults = 0

Log(r) == Chosen[r][reviewer[r].at]
Asking(e) == \E r \in Reviewers : reviewer[r].step = "asks" /\ ExcerptOf[Log(r)] = e

\* The logs are read once, for the whole call
Open(r) ==
    /\ reviewer[r].step = "new"
    /\ reviewer' = [reviewer EXCEPT ![r] = [at |-> 1, seen |-> review, step |-> "next"]]
    /\ UNCHANGED <<review, verdicts, calls, overlaps, reviewFaults>>

Go(r) == reviewer' = [reviewer EXCEPT ![r].at = @ + 1, ![r].step = "next"]

\* Mutant of Unread: what the cache says is not asked
UnreadEver(e) == e \in ExcerptSet

Unread(e) == e \notin verdicts

\* A request with a final verdict is passed over, a short one skipped; the others
\* take the verdict of the cache, or the model is asked
Review(r, reads) ==
    /\ reviewer[r].step = "next" /\ reviewer[r].at <= Len(Chosen[r])
    /\ LET e == ExcerptOf[Log(r)] IN
       IF Final(reviewer[r].seen[Log(r)])
       THEN Go(r) /\ UNCHANGED <<review, overlaps, reviewFaults>>
       ELSE IF e \in Short
       THEN Go(r) /\ review' = [review EXCEPT ![Log(r)] = "skipped"] /\ UNCHANGED <<overlaps, reviewFaults>>
       ELSE IF reads /\ ~Unread(e)
       THEN Go(r) /\ review' = [review EXCEPT ![Log(r)] = Verdict(e)] /\ UNCHANGED <<overlaps, reviewFaults>>
       ELSE /\ (reads \/ reviewFaults < MaxFaults)
            /\ reviewFaults' = IF reads THEN reviewFaults ELSE reviewFaults + 1
            /\ reviewer' = [reviewer EXCEPT ![r].step = "asks"]
            /\ overlaps' = IF reads /\ ~Asking(e) THEN overlaps ELSE overlaps \cup {e}
            /\ UNCHANGED review
    /\ UNCHANGED <<verdicts, calls>>

\* _complete, parse_verdict and _store_verdict; a cache that cannot be written is
\* no error
Answer(r, stores) ==
    /\ reviewer[r].step = "asks" /\ (stores \/ reviewFaults < MaxFaults)
    /\ LET e == ExcerptOf[Log(r)] IN
       /\ review' = [review EXCEPT ![Log(r)] = Verdict(e)]
       /\ calls' = [calls EXCEPT ![e] = @ + 1]
       /\ verdicts' = IF stores THEN verdicts \cup {e} ELSE verdicts
       /\ overlaps' = IF stores THEN overlaps ELSE overlaps \cup {e}
    /\ reviewFaults' = IF stores THEN reviewFaults ELSE reviewFaults + 1
    /\ Go(r)

\* No answer, or none that can be read: "unavailable", whatever the row says now
Unanswered(r) ==
    /\ reviewer[r].step = "asks" /\ reviewFaults < MaxFaults /\ reviewFaults' = reviewFaults + 1
    /\ review' = [review EXCEPT ![Log(r)] = "unavailable"]
    /\ Go(r)
    /\ UNCHANGED <<verdicts, calls, overlaps>>

NextReviews == \E r \in Reviewers : \/ Open(r) \/ Unanswered(r)
                                    \/ \E fine \in BOOLEAN : Review(r, fine) \/ Answer(r, fine)

SpecReviews == InitReviews /\ [][NextReviews]_reviewVars

----------------------------------------------------------------------------
(* Properties *)

\* "The same excerpt reuses its verdict": the model answers for an excerpt once,
\* in however many requests it is and however often they are chosen, unless the
\* excerpt was sent twice at the same time or Redis failed.
AskedOnce == \A e \in ExcerptSet \ overlaps : calls[e] <= 1

\* A final verdict stays.  This fails: a review that began earlier and gets no
\* answer writes "unavailable" over the verdict of another.
VerdictStays == [][\A l \in Logs : Final(review[l]) => review'[l] = review[l]]_reviewVars
=============================================================================
