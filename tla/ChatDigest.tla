----------------------------- MODULE ChatDigest ------------------------------
(* The scheduled digest (src/internal/chat/digest.go): every page, in order, *)
(* to every alert channel, with a pause between pages and a bounded retry of *)
(* the same page while the provider limits the rate.  Pages have no outbox:  *)
(* a page that is passed over is lost until the next day.                    *)
EXTENDS Naturals, Sequences

CONSTANTS Channels,      \* number of alert channels
          Pages,         \* number of pages
          MaxPageTries   \* maxDigestPageAttempts

VARIABLES
    spot,     \* [channel, page, try]: the next post; channel 0 when idle
    pausing,  \* the sender waits before that post
    limited,  \* the channel's rate-limit window has not passed
    posted,   \* pages the channel has, in order
    skipped,  \* pages passed over: channel, page and why
    digests   \* digests begun

digest == <<spot, pausing, limited, posted, skipped, digests>>

NoSpot == [channel |-> 0, page |-> 0, try |-> 0]

DigestInit(sent) ==
    /\ spot = NoSpot /\ pausing = FALSE /\ limited = {} /\ skipped = {}
    /\ digests = IF sent THEN 1 ELSE 0
    /\ posted = [c \in 1 .. Channels |-> IF sent THEN [p \in 1 .. Pages |-> p] ELSE <<>>]

\* runDigest: the daily boundary.
DigestDue ==
    /\ spot = NoSpot /\ digests = 0 /\ digests' = 1
    /\ spot' = [channel |-> 1, page |-> 1, try |-> 1]
    /\ UNCHANGED <<pausing, limited, posted, skipped>>

\* deliverDigestMessages: the next page after the interval or what is left of
\* the cooldown, the next channel at once.
Advance ==
    IF spot.page < Pages
    THEN spot' = [spot EXCEPT !.page = @ + 1, !.try = 1] /\ pausing' = TRUE
    ELSE /\ spot' = IF spot.channel < Channels THEN [channel |-> spot.channel + 1, page |-> 1, try |-> 1]
                    ELSE NoSpot
         /\ pausing' = FALSE

\* Mutation: a rate-limited page is passed over, like a refused one.
DigestPost_PassesOver ==
    /\ spot.channel # 0 /\ ~pausing
    /\ \/ /\ spot.channel \notin limited
          /\ posted' = [posted EXCEPT ![spot.channel] = Append(@, spot.page)]
          /\ Advance /\ UNCHANGED <<limited, skipped>>
       \/ /\ limited' = limited \cup {spot.channel}
          /\ Advance /\ skipped' = skipped \cup {<<spot.channel, spot.page, "limited", spot.try>>}
          /\ UNCHANGED posted
    /\ UNCHANGED digests

\* What becomes of a post; a 429 is told from other refusals.
PostOutcomes == {"posted", "limited", "refused"}

\* postDigestPage: the same page again after a rate limit, up to the bound.
DigestPost ==
    /\ spot.channel # 0 /\ ~pausing
    /\ \E outcome \in PostOutcomes :
          /\ outcome = "posted" => spot.channel \notin limited
          /\ posted' = IF outcome = "posted" THEN [posted EXCEPT ![spot.channel] = Append(@, spot.page)] ELSE posted
          /\ limited' = IF outcome = "limited" THEN limited \cup {spot.channel} ELSE limited
          /\ IF outcome = "limited" /\ spot.try < MaxPageTries
             THEN spot' = [spot EXCEPT !.try = @ + 1] /\ pausing' = TRUE /\ UNCHANGED skipped
             ELSE /\ Advance
                  /\ skipped' = IF outcome = "posted" THEN skipped
                                ELSE skipped \cup {<<spot.channel, spot.page, outcome, spot.try>>}
    /\ UNCHANGED digests

\* waitForDigest: the pause is never shorter than the provider's window.
DigestWait ==
    /\ pausing /\ pausing' = FALSE
    /\ limited' = limited \ {spot.channel}
    /\ UNCHANGED <<spot, posted, skipped, digests>>

DigestStops == spot # NoSpot /\ spot' = NoSpot /\ pausing' = FALSE /\ UNCHANGED <<limited, posted, skipped, digests>>
=============================================================================
