------------------------------ MODULE PyroProxy ------------------------------
(***************************************************************************)
(* One BoundPyroProxy: remote calls over a connection that is made when it *)
(* is needed, authenticated in both directions, and closed on any          *)
(* communication error.  Replies carry only a sequence number that wraps   *)
(* around, a call that times out is still executed by the peer, and a      *)
(* connection is kept although its handshake was refused: PyroNetwork      *)
(* drops such a proxy and makes another one for its next call.             *)
(***************************************************************************)
EXTENDS Integers, FiniteSets, FiniteSetsExt, Sequences

CONSTANTS
    Thread,         \* threads that use the proxy
    FirstOwner,     \* the thread that made it
    SeqMod,         \* sequence numbers are counted modulo this (0xFFFF + 1)
    Refetch,        \* refetch_interval
    MaxCalls,       \* bound on calls
    MaxTime,        \* bound on the clock
    MaxFaults,      \* bound on connections that fail and fetches that raise
    MaxListings     \* bound on changes of the federators in the contract

ASSUME ProxyAssumption ==
    /\ FirstOwner \in Thread
    /\ SeqMod \in Nat \ {0}
    /\ Refetch \in Nat
    /\ {MaxCalls, MaxTime, MaxFaults, MaxListings} \subseteq Nat

VARIABLES
    \* the proxy
    owner,          \* __pyroOwnerThread
    conn,           \* _pyroConnection: 0, or the number of the connection
    seq,            \* _pyroSeq
    cache,          \* _cached_peer_addresses: is the peer's address in it?
    cacheTime,      \* _cached_peer_addresses_timestamp
    dropped,        \* the handshake raised, and the caller has let go of the proxy
    \* the call in progress
    pc,
    goal,           \* what the call is for
    results,        \* how each call has ended, in order
    \* the network and the peer
    requests,       \* requests the peer has not executed yet
    replies,        \* replies on the open connection, oldest first
    conns,          \* connections made so far
    \* the contract, the clock and bounds
    listed,         \* the peer's address is among the federators
    listedAt,       \* the times at which it was
    validatedAt,    \* when the open connection was validated, or Never
    now, listings, faults

proxyVars == <<owner, conn, seq, dropped>>
cacheVars == <<cache, cacheTime>>
callVars  == <<pc, goal, results>>
wireVars  == <<requests, replies, conns, validatedAt>>
worldVars == <<listed, listedAt, now, listings>>
vars == <<proxyVars, cacheVars, callVars, wireVars, worldVars, faults>>

-----------------------------------------------------------------------------
Never == -1
Cache == {"none", "in", "out"}

(* validated is history: when the connection was validated. *)
Request == [call : Nat, conn : Nat, seq : Nat, validated : Nat \cup {Never}]

(* What a call ends with: an exception, a connection, or the reply to the   *)
(* call with the given number.                                              *)
Raised == [kind |-> "raised", call |-> 0]
Bound == [kind |-> "bound", call |-> 0]
ReplyTo(k) == [kind |-> "reply", call |-> k]
Result == {Raised, Bound} \cup {ReplyTo(k) : k \in 1 .. MaxCalls}

ThisCall == Len(results) + 1

Init ==
    /\ owner = FirstOwner
    /\ conn = 0
    /\ seq = 0
    /\ cache = "none"
    /\ cacheTime = 0
    /\ dropped = FALSE
    /\ pc = "idle"
    /\ goal = "none"
    /\ results = <<>>
    /\ requests = {}
    /\ replies = <<>>
    /\ conns = 0
    /\ listed = TRUE
    /\ listedAt = {0}
    /\ validatedAt = Never
    /\ now = 0
    /\ listings = 0
    /\ faults = 0

Fault == faults < MaxFaults /\ faults' = faults + 1

(* The call returns or raises; the proxy is ready for the next one. *)
Ends(r) ==
    /\ results' = Append(results, r)
    /\ pc' = "idle"
    /\ goal' = "none"

(* The socket is closed: replies on it are never read. *)
_pyroRelease ==
    /\ conn' = 0
    /\ replies' = <<>>
    /\ validatedAt' = Never

-----------------------------------------------------------------------------
(* _pyroInvoke *)

__check_owner(t) == t = owner

(* Variant: proxies are made once, and a refused one is called again. *)
InHandAlways == TRUE

InHand == ~dropped

Raises(r) == Ends(r) /\ UNCHANGED <<proxyVars, cacheVars, wireVars, worldVars, faults>>

NotOwner(t) ==
    /\ pc = "idle"
    /\ Len(results) < MaxCalls
    /\ InHand
    /\ ~__check_owner(t)
    /\ Raises(Raised)

Send(c, validated) ==
    /\ seq' = (seq + 1) % SeqMod
    /\ requests' = requests \cup
          {[call |-> ThisCall, conn |-> c, seq |-> seq', validated |-> validated]}
    /\ pc' = "wait"

Invoke(t) ==
    /\ pc = "idle"
    /\ Len(results) < MaxCalls
    /\ InHand
    /\ __check_owner(t)
    /\ goal' = "invoke"
    /\ \/ /\ conn = 0
          /\ pc' = "connect"
          /\ UNCHANGED <<seq, requests>>
       \/ /\ conn # 0
          /\ Send(conn, validatedAt)
    /\ UNCHANGED <<owner, conn, dropped, cacheVars, results, replies, conns,
                   validatedAt, worldVars, faults>>

_pyroBind(t) ==
    /\ pc = "idle"
    /\ Len(results) < MaxCalls
    /\ InHand
    /\ __check_owner(t)
    /\ \/ /\ conn = 0
          /\ pc' = "connect"
          /\ goal' = "bind"
          /\ UNCHANGED results
       \/ /\ conn # 0
          /\ Ends(Bound)
    /\ UNCHANGED <<proxyVars, cacheVars, wireVars, worldVars, faults>>

__pyroCheckSequence(reply) == reply.seq = seq

ReceiveReply ==
    /\ pc = "wait"
    /\ replies # <<>>
    /\ \/ /\ __pyroCheckSequence(Head(replies))
          /\ Ends(ReplyTo(Head(replies).call))
          /\ replies' = Tail(replies)
          /\ UNCHANGED <<conn, validatedAt>>
       \/ /\ ~__pyroCheckSequence(Head(replies))
          /\ Ends(Raised)
          /\ _pyroRelease
    /\ UNCHANGED <<owner, seq, dropped, cacheVars, requests, conns, worldVars, faults>>

(* Variant: the connection stays open after a communication error. *)
CommunicationErrorKeepsConnection ==
    /\ pc = "wait"
    /\ Ends(Raised)
    /\ UNCHANGED <<proxyVars, cacheVars, wireVars, worldVars, faults>>

(* Variant: no timeout is set. *)
CommunicationErrorNever == FALSE /\ UNCHANGED vars

(* The connection breaks, or the timeout expires first. *)
CommunicationError ==
    /\ pc = "wait"
    /\ Ends(Raised)
    /\ _pyroRelease
    /\ UNCHANGED <<owner, seq, dropped, cacheVars, requests, conns, worldVars, faults>>

-----------------------------------------------------------------------------
(* __pyroCreateConnection *)

(* The peer cannot be reached, does not answer in time, or rejects us. *)
CannotConnect ==
    /\ pc = "connect"
    /\ Fault
    /\ Ends(Raised)
    /\ UNCHANGED <<proxyVars, cacheVars, wireVars, worldVars>>

Fresh == cache # "none" /\ now - cacheTime < Refetch

_get_peer_addresses ==
    \/ Fresh /\ UNCHANGED cacheVars
    \/ ~Fresh /\ cache' = (IF listed THEN "in" ELSE "out") /\ cacheTime' = now

(* The handshake of the peer is signed by a federator: the call goes on. *)
Connected ==
    /\ pc = "connect"
    /\ _get_peer_addresses
    /\ cache' = "in"
    /\ conn' = conns + 1
    /\ conns' = conns + 1
    /\ validatedAt' = now
    /\ replies' = <<>>
    /\ \/ /\ goal = "invoke"
          /\ Send(conn', now)
          /\ UNCHANGED <<goal, results>>
       \/ /\ goal = "bind"
          /\ Ends(Bound)
          /\ UNCHANGED <<seq, requests>>
    /\ UNCHANGED <<owner, dropped, worldVars, faults>>

(* _pyroConnection is set before the handshake is validated, and stays when  *)
(* that raises.                                                             *)
HandshakeRaises ==
    /\ pc = "connect"
    /\ conn' = conns + 1
    /\ conns' = conns + 1
    /\ validatedAt' = Never
    /\ replies' = <<>>
    /\ dropped' = TRUE
    /\ Ends(Raised)
    /\ UNCHANGED <<owner, seq, requests, worldVars>>

NotAFederator ==
    /\ _get_peer_addresses
    /\ cache' = "out"
    /\ HandshakeRaises
    /\ UNCHANGED faults

(* fetch_peer_addresses raises: the cache stays as it is. *)
FetchRaises ==
    /\ ~Fresh
    /\ Fault
    /\ HandshakeRaises
    /\ UNCHANGED cacheVars

Release(t) ==
    /\ pc = "idle"
    /\ __check_owner(t)
    /\ conn # 0
    /\ _pyroRelease
    /\ UNCHANGED <<owner, seq, dropped, cacheVars, callVars, requests, conns, worldVars, faults>>

_pyroClaimOwnership(t) ==
    /\ pc = "idle"
    /\ t # owner
    /\ owner' = t
    /\ UNCHANGED <<conn, seq, dropped, cacheVars, callVars, wireVars, worldVars, faults>>

(* A thread makes a new proxy for its next calls; the socket of the old one *)
(* is closed with it.                                                       *)
get_peers(t) ==
    /\ pc = "idle"
    /\ owner' = t
    /\ seq' = 0
    /\ dropped' = FALSE
    /\ cache' = "none"
    /\ cacheTime' = 0
    /\ _pyroRelease
    /\ UNCHANGED <<callVars, requests, conns, worldVars, faults>>

-----------------------------------------------------------------------------
(* The peer executes the requests of a connection in order, also after the  *)
(* connection was closed; its reply then goes nowhere.                      *)
Execute(r) ==
    /\ r \in requests
    /\ \A q \in requests : q.conn = r.conn => r.call <= q.call
    /\ requests' = requests \ {r}
    /\ replies' = IF r.conn = conn THEN Append(replies, r) ELSE replies
    /\ UNCHANGED <<proxyVars, cacheVars, callVars, conns, validatedAt, worldVars, faults>>

Tick ==
    /\ now < MaxTime
    /\ now' = now + 1
    /\ listedAt' = IF listed THEN listedAt \cup {now'} ELSE listedAt
    /\ UNCHANGED <<proxyVars, cacheVars, callVars, wireVars, listed, listings, faults>>

ChangeFederators ==
    /\ listings < MaxListings
    /\ listings' = listings + 1
    /\ listed' = ~listed
    /\ listedAt' = IF listed' THEN listedAt \cup {now} ELSE listedAt
    /\ UNCHANGED <<proxyVars, cacheVars, callVars, wireVars, now, faults>>

-----------------------------------------------------------------------------
Proceed ==
    \/ ReceiveReply \/ CommunicationError
    \/ CannotConnect \/ Connected \/ NotAFederator \/ FetchRaises

Next ==
    \/ \E t \in Thread : \/ Invoke(t) \/ _pyroBind(t) \/ NotOwner(t)
                         \/ Release(t) \/ _pyroClaimOwnership(t) \/ get_peers(t)
    \/ Proceed
    \/ \E r \in requests : Execute(r)
    \/ Tick
    \/ ChangeFederators

Spec == Init /\ [][Next]_vars

(* Sockets have a timeout, so a call in progress always goes on. *)
FairSpec == Spec /\ WF_vars(Proceed)

-----------------------------------------------------------------------------
(* Properties *)

(* Every variable holds a value of its kind. *)
TypeOK ==
    /\ owner \in Thread
    /\ conn \in Nat
    /\ seq \in 0 .. SeqMod - 1
    /\ dropped \in BOOLEAN
    /\ cache \in Cache
    /\ cacheTime \in Nat
    /\ pc \in {"idle", "connect", "wait"}
    /\ goal \in {"none", "invoke", "bind"}
    /\ results \in Seq(Result)
    /\ requests \subseteq Request
    /\ replies \in Seq(Request)
    /\ conns \in Nat
    /\ listed \in BOOLEAN
    /\ listedAt \subseteq Nat
    /\ validatedAt \in Nat \cup {Never}
    /\ {now, listings, faults} \subseteq Nat

(* A call never returns the reply to another call, however many calls have  *)
(* timed out before and although sequence numbers wrap around.              *)
ReplyMatchesCall ==
    \A k \in DOMAIN results : results[k].kind = "reply" => results[k].call = k

(* A request is sent only over a connection whose handshake was validated,  *)
(* to a peer that was a federator less than the refetch interval before:    *)
(* the connection that a refused handshake leaves open is never used.       *)
OnlyFederatorsAreAsked ==
    \A r \in requests :
        \E t \in listedAt : /\ t <= r.validated
                            /\ t = r.validated \/ r.validated - t < Refetch

(* No call hangs: it returns or raises, also if the peer never answers. *)
CallsEnd == pc # "idle" ~> pc = "idle"
=============================================================================
