---------------------------- MODULE CacheObserver ----------------------------
(***************************************************************************)
(* tools/diagnose-deepseek-cache.mjs observe: a proxy that compares each   *)
(* request of one conversation with the one before it.  Requests overlap;  *)
(* which of them belong to the conversation is known when their bodies     *)
(* have ended, and the verdict on a request waits until that is known of   *)
(* every request it overlapped with.                                       *)
(*                                                                         *)
(* Requests are numbered in the order they arrive.  Requests without a     *)
(* session and those to other routes are forwarded and take no part.       *)
(***************************************************************************)
EXTENDS Integers, SequencesExt

CONSTANTS Sessions, NoSession,
          MaxRequests  \* bound on the requests

CacheObserverAssumption == NoSession \notin Sessions /\ MaxRequests \in Nat

Requests == 1..MaxRequests
NoRequest == 0

\* What selectRequest finds in a body: it parsed, it did not, or it is a request
\* for another model or too long to tell.
Bodies == {"parsed", "unparsed", "other"}

\* What is reported of a request: nothing yet, an overlap, a body that does not
\* parse, no predecessor, or a comparison.
Verdicts == {"none", "overlap", "unparsed", "first", "compared"}

VARIABLES
    arrived,    \* the number of requests so far
    open,       \* the requests under way
    session,    \* of each request
    ended,      \* the requests whose body has ended
    selected,   \* context.selected
    parsed,     \* context.parseOk
    peers,      \* context.peers
    selectedSession, previous, deferred,    \* state
    verdict, with,  \* what was reported, and the request it was compared with
    past        \* history: the requests that were over when each arrived

contexts == <<arrived, open, session, ended, selected, parsed, peers, past>>
reports == <<previous, deferred, verdict, with>>
vars == <<contexts, selectedSession, reports>>

Init ==
    /\ arrived = 0 /\ open = {}
    /\ session = [r \in Requests |-> NoSession]
    /\ ended = {} /\ selected = {} /\ parsed = {}
    /\ peers = [r \in Requests |-> {}]
    /\ selectedSession = NoSession /\ previous = NoRequest /\ deferred = <<>>
    /\ verdict = [r \in Requests |-> "none"]
    /\ with = [r \in Requests |-> NoRequest]
    /\ past = [r \in Requests |-> {}]

\* registerInflight, as the request of a session arrives.
Arrive(s) ==
    LET r == arrived + 1
        inflight == {q \in open : session[q] = s}
    IN
    /\ arrived < MaxRequests /\ arrived' = r
    /\ open' = open \cup {r}
    /\ session' = [session EXCEPT ![r] = s]
    /\ peers' = [q \in Requests |->
                    IF q = r THEN inflight
                    ELSE IF q \in inflight THEN peers[q] \cup {r} ELSE peers[q]]
    /\ past' = [past EXCEPT ![r] = (1..arrived) \ open]
    /\ UNCHANGED <<ended, selected, parsed, selectedSession, reports>>

\* selectRequest.  The first parsed request chooses the conversation, be its
\* response over already; but then it is too late to select the request, whose
\* context is given up.
BodyEnds(r, body) ==
    LET chosen == IF body = "parsed" /\ selectedSession = NoSession
                  THEN session[r] ELSE selectedSession
        inTime == r \in open
    IN
    /\ r \in 1..arrived \ ended
    /\ ended' = ended \cup {r}
    /\ selectedSession' = chosen
    /\ selected' = IF inTime /\ body # "other" /\ session[r] = chosen
                   THEN selected \cup {r} ELSE selected
    /\ parsed' = IF inTime /\ body = "parsed" THEN parsed \cup {r} ELSE parsed
    /\ UNCHANGED <<arrived, open, session, peers, past, reports>>

-----------------------------------------------------------------------------
\* peersResolved, with the requests that are under way.
PeersResolved(r, under) == peers[r] \cap under = {}

\* emitObservation of one deferred request.
Overlapped(r) == peers[r] \cap selected # {}

\* The verdict.  A body too large for the metadata counts as one that is compared.
VerdictOn(r, before) ==
    CASE Overlapped(r) -> "overlap"
      [] ~Overlapped(r) /\ r \notin parsed -> "unparsed"
      [] ~Overlapped(r) /\ r \in parsed /\ before = NoRequest -> "first"
      [] OTHER -> "compared"

\* A mistake: an overlapping request leaves the predecessor it found.
LeftBy_Kept(r) == IF Overlapped(r) THEN previous ELSE r

\* The predecessor that the report on an overlapping or on a parsed request leaves;
\* the other reports leave the one they find.
LeftBy(r) == IF Overlapped(r) THEN NoRequest ELSE r

\* The predecessor when the i-th of the queue is reported: the last report before it
\* that leaves one says which.
Before(queue, i) ==
    LET leaving == {j \in 1..(i - 1) : Overlapped(queue[j]) \/ queue[j] \in parsed}
    IN  IF leaving = {} THEN previous ELSE LeftBy(queue[Max(leaving)])

\* flushDeferred: in the order of completion, up to the first that must wait.
FlushLength(queue, under) ==
    LET stuck == {i \in DOMAIN queue : ~PeersResolved(queue[i], under)}
    IN  IF stuck = {} THEN Len(queue) ELSE Min(stuck) - 1

Flushed(queue, under) ==
    LET n == FlushLength(queue, under)
        at(r) == CHOOSE i \in 1..n : queue[i] = r
        now == {queue[i] : i \in 1..n}
    IN
    /\ previous' = Before(queue, n + 1)
    /\ deferred' = SubSeq(queue, n + 1, Len(queue))
    /\ verdict' = [r \in Requests |->
            IF r \in now THEN VerdictOn(r, Before(queue, at(r))) ELSE verdict[r]]
    /\ with' = [r \in Requests |->
            IF r \in now /\ VerdictOn(r, Before(queue, at(r))) = "compared"
            THEN Before(queue, at(r)) ELSE with[r]]

\* finishContext, when the response is complete, or (aborted) the upstream or the
\* client has gone.
Finish(r, aborted) ==
    LET reported == ~aborted /\ r \in selected
        queue == IF reported THEN Append(deferred, r) ELSE deferred
    IN
    /\ r \in open /\ open' = open \ {r}
    /\ Flushed(queue, open \ {r})
    /\ UNCHANGED <<arrived, session, ended, selected, parsed, peers, past,
                   selectedSession>>

Next ==
    \/ \E s \in Sessions : Arrive(s)
    \/ \E r \in Requests, body \in Bodies : BodyEnds(r, body)
    \/ \E r \in Requests, aborted \in BOOLEAN : Finish(r, aborted)

Spec == Init /\ [][Next]_vars

-----------------------------------------------------------------------------
TypeOK ==
    /\ arrived \in 0..MaxRequests
    /\ {open, ended, selected, parsed} \subseteq SUBSET (1..arrived)
    /\ session \in [Requests -> Sessions \cup {NoSession}]
    /\ peers \in [Requests -> SUBSET (1..arrived)]
    /\ past \in [Requests -> SUBSET (1..arrived)]
    /\ selectedSession \in Sessions \cup {NoSession}
    /\ previous \in {NoRequest} \cup 1..arrived
    /\ deferred \in Seq(1..arrived)
    /\ verdict \in [Requests -> Verdicts]
    /\ with \in [Requests -> {NoRequest} \cup 1..arrived]

Concurrent(r, q) == r # q /\ r \notin past[q] /\ q \notin past[r]

\* Overlap is symmetric: of two selected requests that were under way together,
\* whichever arrived, was selected or ended first and even if one was aborted,
\* none is compared, though the verdict may be due before the other is known.
OverlapIsSymmetric ==
    \A r, q \in selected :
        Concurrent(r, q) => verdict[r] \in {"none", "overlap"}

\* What a request is compared with had ended before it arrived, and is the last
\* parsed one of its conversation that had: reports that wait for a peer are
\* never overtaken, and no overlapped request in between is passed over.
ComparedWithLast ==
    \A r \in Requests : verdict[r] = "compared" =>
        /\ with[r] \in past[r]
        /\ \A q \in past[r] \ {with[r]} :
              verdict[q] \in {"overlap", "first", "compared"} => q \in past[with[r]]

\* A report waits for a request that is still under way, never longer: when the
\* last request is over every report is out.
NothingStuck == open = {} => deferred = <<>>
=============================================================================
