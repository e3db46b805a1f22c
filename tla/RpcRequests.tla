----------------------------- MODULE RpcRequests -----------------------------
(***************************************************************************)
(* Requests to the nodes of one chain: httpRetryProvider.js, of validator  *)
(* and monitor, and the batches of tx/batch.js that go through it.  All    *)
(* requests share the index of the URL that answered last.                 *)
(***************************************************************************)
EXTENDS Integers, FiniteSets

CONSTANTS
  Request,           \* requests that may be under way at a time
  UrlCount,
  MaxRetries,        \* RETRY_CONFIG.retries
  MaxSent            \* bound

ASSUME RpcAssumption == UrlCount \in Nat \ {0} /\ {MaxRetries, MaxSent} \subseteq Nat

VARIABLES
  currentIndex,
  request,     \* per request: [at, first, index, count, tried, retries]
  sent         \* how many were sent

rpcVars == <<currentIndex, request, sent>>

Url == 0..UrlCount - 1

(* at: "fetching", "pausing" (until promise-retry calls again), "resolved",*)
(* "rejected" (one of its calls failed at the node that answered), "failed"*)
(* (there was no answer).  first is the index that send has saved, count   *)
(* and tried are of one round over the URLs.                               *)
Sending(index) ==
  [at |-> "fetching", first |-> index, index |-> index, count |-> 0, tried |-> {}, retries |-> 0]
Underway == {"fetching", "pausing"}

RpcInit ==
  /\ currentIndex = 0
  /\ request = [r \in Request |-> [Sending(0) EXCEPT !.at = "resolved"]]
  /\ sent = 0

SendRequest(r) ==
  /\ request[r].at \notin Underway
  /\ sent < MaxSent /\ sent' = sent + 1
  /\ request' = [request EXCEPT ![r] = Sending(currentIndex)]
  /\ UNCHANGED currentIndex

(* Of a batch, every call gets its result: one that failed rejects the     *)
(* promise, and the results that still come never make it complete.        *)
BatchResult == {"resolved", "rejected"}

FetchAnswered(r) ==
  /\ request[r].at = "fetching"
  /\ currentIndex' = request[r].index
  /\ \E result \in BatchResult : request' = [request EXCEPT ![r].at = result]
  /\ UNCHANGED sent

(* Mutant of NextUrl: it goes on from the index that the requests share.   *)
NextUrlOfAll(r) == (currentIndex + request[r].count + 1) % UrlCount

NextUrl(r) == (request[r].index + 1) % UrlCount

(* trySend and the retries of send.  When these are used up, the callback  *)
(* of web3 gets the errors.                                                *)
FetchFails(r) ==
  /\ request[r].at = "fetching"
  /\ LET over == request[r].count + 1 = UrlCount
         next == IF ~over THEN "fetching"
                 ELSE IF request[r].retries < MaxRetries THEN "pausing" ELSE "failed"
     IN  request' = [request EXCEPT ![r].tried = @ \cup {request[r].index}, ![r].index = NextUrl(r),
                                    ![r].count = @ + 1, ![r].at = next]
  /\ UNCHANGED <<currentIndex, sent>>

(* Another round, from the URL the first one began with.                   *)
RetryRound(r) ==
  /\ request[r].at = "pausing"
  /\ request' = [request EXCEPT ![r] =
       [Sending(request[r].first) EXCEPT !.retries = request[r].retries + 1]]
  /\ UNCHANGED <<currentIndex, sent>>

RpcNext ==
  \E r \in Request : SendRequest(r) \/ FetchAnswered(r) \/ FetchFails(r) \/ RetryRound(r)

RpcSpec == RpcInit /\ [][RpcNext]_rpcVars

-----------------------------------------------------------------------------
(* A request pauses or is given up only after every URL has failed it,     *)
(* whatever the answers to others did to the shared index meanwhile.       *)
EveryUrlTried ==
  \A r \in Request : request[r].at \in {"pausing", "failed"} => request[r].tried = Url
=============================================================================
