--------------------------- MODULE PyroProxyProofs ---------------------------
(***************************************************************************)
(* Calls through a BoundPyroProxy return their own reply, for any number   *)
(* of threads, calls, timeouts and any modulus of the sequence numbers,    *)
(* and requests are sent only to recent federators.                        *)
(***************************************************************************)
EXTENDS PyroProxy, SequenceTheorems, TLAPS

(* Requests and replies on the open connection. *)
UnderWay == {r \in requests : r.conn = conn}

(* A call in progress counts against the bound and has a goal. *)
CallInv ==
    /\ pc # "idle" => Len(results) < MaxCalls
    /\ pc = "connect" => conn = 0

(* Connections are numbered in the order in which they were made, so that   *)
(* no request of an old one can be taken for one of a new one.              *)
NumberInv ==
    /\ conn <= conns
    /\ \A r \in requests : 1 <= r.conn /\ r.conn <= conns

(* Between calls nothing is under way on the connection, and during a call  *)
(* its own request or its own reply: whatever an aborted call has left      *)
(* behind was on a connection that is closed.                               *)
QuietInv ==
    /\ pc # "wait" => replies = <<>> /\ UnderWay = {}
    /\ pc = "wait" =>
          /\ \A r \in UnderWay : r.call = ThisCall
          /\ \A r, q \in UnderWay : r = q
          /\ replies # <<>> => /\ Len(replies) = 1
                               /\ replies[1].call = ThisCall
                               /\ UnderWay = {}

ReplyInv == TypeOK /\ CallInv /\ NumberInv /\ QuietInv /\ ReplyMatchesCall

-----------------------------------------------------------------------------
LEMMA AppendedResult ==
  ASSUME NEW S, NEW s \in Seq(S), NEW e \in S
  PROVE  /\ Append(s, e) \in Seq(S)
         /\ Len(Append(s, e)) = Len(s) + 1
         /\ \A i \in DOMAIN Append(s, e) :
               \/ i \in DOMAIN s /\ Append(s, e)[i] = s[i]
               \/ i = Len(s) + 1 /\ Append(s, e)[i] = e
OBVIOUS

LEMMA OnlyElement ==
  ASSUME NEW S, NEW s \in Seq(S), Len(s) = 1
  PROVE  Head(s) = s[1] /\ Tail(s) = <<>>
<1>1. s # <<>> /\ Head(s) = s[1]
  OBVIOUS
<1>2. Tail(s) \in Seq(S) /\ Len(Tail(s)) = 0
  BY <1>1
<1>3. Tail(s) = <<>>
  BY <1>2, EmptySeq
<1>4. QED
  BY <1>1, <1>3

(* A call that raises or binds leaves the results right. *)
LEMMA EndsWithoutReply ==
  ASSUME TypeOK, ReplyMatchesCall, NEW r \in {Raised, Bound}, Ends(r)
  PROVE  results' \in Seq(Result) /\ ReplyMatchesCall'
<1>1. r \in Result /\ r.kind # "reply"
  BY DEF Result, Raised, Bound
<1>2. QED
  BY <1>1, AppendedResult DEF Ends, TypeOK, ReplyMatchesCall

(* A call that returns the reply to itself leaves the results right. *)
LEMMA EndsWithReply ==
  ASSUME TypeOK, CallInv, ReplyMatchesCall, pc = "wait", Ends(ReplyTo(ThisCall))
  PROVE  results' \in Seq(Result) /\ ReplyMatchesCall'
<1>1. Len(results) \in Nat /\ MaxCalls \in Nat
  BY ProxyAssumption DEF TypeOK
<1>2. ThisCall \in 1 .. MaxCalls
  BY <1>1 DEF CallInv, ThisCall
<1>3. ReplyTo(ThisCall) \in Result
  BY <1>2 DEF Result
<1>4. ReplyTo(ThisCall).call = Len(results) + 1
  BY DEF ReplyTo, ThisCall
<1>5. QED
  BY <1>3, <1>4, AppendedResult DEF Ends, TypeOK, ReplyMatchesCall

LEMMA SeqWraps ==
  ASSUME TypeOK
  PROVE  /\ (seq + 1) % SeqMod \in 0 .. SeqMod - 1
         /\ (seq + 1) % SeqMod \in Nat
BY ProxyAssumption DEF TypeOK

(* Sending on a quiet connection puts the only request of this call on it. *)
LEMMA SendIsQuiet ==
  ASSUME TypeOK, NumberInv, NEW c \in Nat \ {0}, NEW v \in Nat \cup {Never},
         Send(c, v), c <= conns',
         conns \in Nat, conns' \in Nat, conns <= conns', conn' = c,
         \A r \in requests : r.conn # c, replies' = <<>>, results' = results
  PROVE  /\ seq' \in 0 .. SeqMod - 1
         /\ requests' \subseteq Request
         /\ NumberInv'
         /\ QuietInv'
<1> DEFINE new == [call |-> ThisCall, conn |-> c, seq |-> seq', validated |-> v]
<1>1. seq' \in 0 .. SeqMod - 1 /\ seq' \in Nat
  BY SeqWraps DEF Send
<1>2. ThisCall \in Nat /\ ThisCall' = ThisCall
  BY DEF TypeOK, ThisCall
<1>3. requests' = requests \cup {new} /\ new \in Request
  BY <1>1, <1>2 DEF Send, Request
<1>4. UnderWay' = {new}
  BY <1>3 DEF UnderWay
<1>5. QuietInv'
  BY <1>2, <1>4 DEF QuietInv, Send
<1>6. NumberInv'
  BY <1>3 DEF NumberInv, TypeOK, Request
<1>7. QED
  BY <1>1, <1>3, <1>5, <1>6 DEF TypeOK

LEMMA InitReply ==
  Init => ReplyInv
<1>1. Init => dropped \in BOOLEAN
  BY Zenon DEF Init
<1>2. Init => TypeOK
  BY <1>1, ProxyAssumption DEF Init, TypeOK, Cache, Never
<1>3. QED
  BY <1>2 DEF Init, ReplyInv, CallInv, NumberInv, QuietInv, ReplyMatchesCall, UnderWay

-----------------------------------------------------------------------------
(* The steps of the calling thread. *)

LEMMA InvokeReply ==
  ASSUME ReplyInv, NEW t \in Thread, Invoke(t)
  PROVE  ReplyInv'
<1> USE DEF ReplyInv
<1>1. /\ ReplyMatchesCall'
      /\ CallInv'
  BY DEF Invoke, ReplyMatchesCall, CallInv, Send, TypeOK
<1>2. CASE conn = 0
  <2>1. TypeOK'
    BY <1>2 DEF TypeOK, Invoke, cacheVars, worldVars
  <2>2. NumberInv' /\ QuietInv'
    BY <1>2 DEF Invoke, NumberInv, QuietInv, UnderWay
  <2>3. QED
    BY <1>1, <2>1, <2>2
<1>3. CASE conn # 0
  <2>1. Send(conn, validatedAt) /\ conn' = conn /\ conns' = conns /\ results' = results /\ replies' = replies
    BY <1>3 DEF Invoke
  <2>2. replies = <<>> /\ \A r \in requests : r.conn # conn
    BY DEF Invoke, QuietInv, UnderWay
  <2>3. /\ conn \in Nat \ {0} /\ conn <= conns /\ conns \in Nat /\ conns <= conns
        /\ validatedAt \in Nat \cup {Never}
    BY <1>3 DEF TypeOK, NumberInv
  <2>4. /\ seq' \in 0 .. SeqMod - 1
        /\ requests' \subseteq Request
        /\ NumberInv'
        /\ QuietInv'
    BY <2>1, <2>2, <2>3, SendIsQuiet
  <2>5. TypeOK'
    BY <2>1, <2>4 DEF TypeOK, Invoke, Send, cacheVars, worldVars
  <2>6. QED
    BY <1>1, <2>4, <2>5
<1>4. QED
  BY <1>2, <1>3

LEMMA BindReply ==
  ASSUME ReplyInv, NEW t \in Thread, _pyroBind(t)
  PROVE  ReplyInv'
<1> USE DEF ReplyInv, proxyVars, cacheVars, wireVars, worldVars
<1>1. results' \in Seq(Result) /\ ReplyMatchesCall'
  <2>1. CASE results' = results
    BY <2>1 DEF TypeOK, ReplyMatchesCall
  <2>2. CASE Ends(Bound)
    BY <2>2, EndsWithoutReply
  <2>3. QED
    BY <2>1, <2>2 DEF _pyroBind
<1>2. TypeOK'
  BY <1>1 DEF TypeOK, _pyroBind, Ends
<1>3. CallInv' /\ NumberInv' /\ QuietInv'
  BY DEF _pyroBind, Ends, CallInv, NumberInv, QuietInv, UnderWay
<1>4. QED
  BY <1>1, <1>2, <1>3

LEMMA NotOwnerReply ==
  ASSUME ReplyInv, NEW t \in Thread, NotOwner(t)
  PROVE  ReplyInv'
<1> USE DEF ReplyInv, proxyVars, cacheVars, wireVars, worldVars
<1>1. Ends(Raised)
  BY DEF NotOwner, Raises
<1>2. results' \in Seq(Result) /\ ReplyMatchesCall'
  BY <1>1, EndsWithoutReply
<1>3. TypeOK'
  BY <1>1, <1>2 DEF TypeOK, NotOwner, Raises, Ends
<1>4. CallInv' /\ NumberInv' /\ QuietInv'
  BY <1>1 DEF NotOwner, Raises, Ends, CallInv, NumberInv, QuietInv, UnderWay
<1>5. QED
  BY <1>2, <1>3, <1>4

(* Closing the connection leaves no request on "connection 0". *)
LEMMA ReleaseIsQuiet ==
  ASSUME TypeOK, NumberInv, _pyroRelease, requests' = requests, conns' = conns
  PROVE  /\ UnderWay' = {}
         /\ NumberInv'
         /\ conn' \in Nat
         /\ replies' \in Seq(Request)
         /\ validatedAt' \in Nat \cup {Never}
<1>1. \A r \in requests : r.conn # 0
  BY DEF NumberInv, TypeOK, Request
<1>2. QED
  BY <1>1 DEF TypeOK, NumberInv, _pyroRelease, UnderWay

LEMMA ReleaseReply ==
  ASSUME ReplyInv, NEW t \in Thread, Release(t)
  PROVE  ReplyInv'
<1> USE DEF ReplyInv, cacheVars, callVars, worldVars
<1>1. _pyroRelease /\ requests' = requests /\ conns' = conns
  BY DEF Release
<1>2. /\ UnderWay' = {}
      /\ NumberInv'
      /\ conn' \in Nat
      /\ replies' \in Seq(Request)
      /\ validatedAt' \in Nat \cup {Never}
  BY <1>1, ReleaseIsQuiet
<1>3. TypeOK'
  BY <1>2 DEF TypeOK, Release
<1>4. CallInv' /\ QuietInv' /\ ReplyMatchesCall'
  BY <1>1, <1>2 DEF Release, _pyroRelease, CallInv, QuietInv, ReplyMatchesCall
<1>5. QED
  BY <1>2, <1>3, <1>4

LEMMA ClaimOwnershipReply ==
  ASSUME ReplyInv, NEW t \in Thread, _pyroClaimOwnership(t)
  PROVE  ReplyInv'
BY DEF ReplyInv, cacheVars, callVars, wireVars, worldVars, _pyroClaimOwnership, TypeOK,
   CallInv, NumberInv, QuietInv, UnderWay, ThisCall, ReplyMatchesCall

LEMMA GetPeersReply ==
  ASSUME ReplyInv, NEW t \in Thread, get_peers(t)
  PROVE  ReplyInv'
<1> USE DEF ReplyInv, callVars, worldVars
<1>1. _pyroRelease /\ requests' = requests /\ conns' = conns
  BY DEF get_peers
<1>2. /\ UnderWay' = {}
      /\ NumberInv'
      /\ conn' \in Nat
      /\ replies' \in Seq(Request)
      /\ validatedAt' \in Nat \cup {Never}
  BY <1>1, ReleaseIsQuiet
<1>3. TypeOK'
  <2>1. dropped' \in BOOLEAN
    BY Zenon DEF get_peers
  <2>2. seq' \in 0 .. SeqMod - 1
    BY ProxyAssumption DEF get_peers
  <2>3. QED
    BY <1>2, <2>1, <2>2 DEF TypeOK, get_peers, Cache
<1>4. CallInv' /\ QuietInv' /\ ReplyMatchesCall'
  BY <1>1, <1>2 DEF get_peers, _pyroRelease, CallInv, QuietInv, ReplyMatchesCall
<1>5. QED
  BY <1>2, <1>3, <1>4

-----------------------------------------------------------------------------
(* The steps of a call in progress. *)

LEMMA ReceiveReplyReply ==
  ASSUME ReplyInv, ReceiveReply
  PROVE  ReplyInv'
<1> USE DEF ReplyInv, cacheVars, worldVars
<1>1. /\ pc = "wait" /\ replies # <<>> /\ Len(replies) = 1
      /\ replies[1].call = ThisCall /\ UnderWay = {}
  BY DEF ReceiveReply, QuietInv
<1>2. Head(replies) = replies[1] /\ Tail(replies) = <<>>
  BY <1>1, OnlyElement DEF TypeOK
<1>3. CASE /\ __pyroCheckSequence(Head(replies))
           /\ Ends(ReplyTo(Head(replies).call))
           /\ replies' = Tail(replies)
           /\ UNCHANGED <<conn, validatedAt>>
  <2>1. results' \in Seq(Result) /\ ReplyMatchesCall'
    BY <1>1, <1>2, <1>3, EndsWithReply
  <2>2. TypeOK'
    BY <1>2, <1>3, <2>1 DEF TypeOK, ReceiveReply, Ends
  <2>3. CallInv' /\ NumberInv' /\ QuietInv'
    BY <1>1, <1>2, <1>3 DEF ReceiveReply, Ends, CallInv, NumberInv, QuietInv, UnderWay
  <2>4. QED
    BY <2>1, <2>2, <2>3
<1>4. CASE Ends(Raised) /\ _pyroRelease
  <2>1. results' \in Seq(Result) /\ ReplyMatchesCall'
    BY <1>4, EndsWithoutReply
  <2>2. /\ UnderWay' = {}
        /\ NumberInv'
        /\ conn' \in Nat
        /\ replies' \in Seq(Request)
        /\ validatedAt' \in Nat \cup {Never}
    BY <1>4, ReleaseIsQuiet DEF ReceiveReply
  <2>3. TypeOK'
    BY <1>4, <2>1, <2>2 DEF TypeOK, ReceiveReply, Ends
  <2>4. CallInv' /\ QuietInv'
    BY <1>4, <2>2 DEF Ends, _pyroRelease, CallInv, QuietInv
  <2>5. QED
    BY <2>1, <2>2, <2>3, <2>4
<1>5. QED
  BY <1>3, <1>4 DEF ReceiveReply

LEMMA CommunicationErrorReply ==
  ASSUME ReplyInv, CommunicationError
  PROVE  ReplyInv'
<1> USE DEF ReplyInv, cacheVars, worldVars
<1>1. Ends(Raised) /\ _pyroRelease
  BY DEF CommunicationError
<1>2. results' \in Seq(Result) /\ ReplyMatchesCall'
  BY <1>1, EndsWithoutReply
<1>3. /\ UnderWay' = {}
      /\ NumberInv'
      /\ conn' \in Nat
      /\ replies' \in Seq(Request)
      /\ validatedAt' \in Nat \cup {Never}
  BY <1>1, ReleaseIsQuiet DEF CommunicationError
<1>4. TypeOK'
  BY <1>1, <1>2, <1>3 DEF TypeOK, CommunicationError, Ends
<1>5. CallInv' /\ QuietInv'
  BY <1>1, <1>3 DEF Ends, _pyroRelease, CallInv, QuietInv
<1>6. QED
  BY <1>2, <1>3, <1>4, <1>5

LEMMA CannotConnectReply ==
  ASSUME ReplyInv, CannotConnect
  PROVE  ReplyInv'
<1> USE DEF ReplyInv, proxyVars, cacheVars, wireVars, worldVars
<1>1. Ends(Raised)
  BY DEF CannotConnect
<1>2. results' \in Seq(Result) /\ ReplyMatchesCall'
  BY <1>1, EndsWithoutReply
<1>3. TypeOK'
  BY <1>1, <1>2 DEF TypeOK, CannotConnect, Ends, Fault
<1>4. CallInv' /\ NumberInv' /\ QuietInv'
  BY <1>1 DEF CannotConnect, Ends, CallInv, NumberInv, QuietInv, UnderWay
<1>5. QED
  BY <1>2, <1>3, <1>4

(* The cached addresses keep their kind. *)
LEMMA FetchedType ==
  ASSUME TypeOK, _get_peer_addresses
  PROVE  cache' \in Cache /\ cacheTime' \in Nat
BY DEF TypeOK, _get_peer_addresses, Cache, cacheVars

(* No request is on a connection that has just been made. *)
LEMMA FreshConnection ==
  ASSUME TypeOK, NumberInv, conns' = conns + 1
  PROVE  /\ conns \in Nat /\ conns' \in Nat /\ conns <= conns'
         /\ conns + 1 \in Nat \ {0} /\ conns + 1 <= conns'
         /\ \A r \in requests : r.conn # conns + 1
BY DEF TypeOK, NumberInv, Request

LEMMA ConnectedReply ==
  ASSUME ReplyInv, Connected
  PROVE  ReplyInv'
<1> USE DEF ReplyInv, worldVars
<1>1. cache' \in Cache /\ cacheTime' \in Nat
  BY FetchedType DEF Connected
<1>2. /\ conns \in Nat /\ conns' \in Nat /\ conns <= conns'
      /\ conns + 1 \in Nat \ {0} /\ conns + 1 <= conns'
      /\ \A r \in requests : r.conn # conns + 1
  BY FreshConnection DEF Connected
<1>3. conn' = conns + 1 /\ replies' = <<>> /\ validatedAt' = now /\ pc = "connect"
  BY DEF Connected
<1>4. CASE Send(conn', now) /\ goal' = goal /\ results' = results
  <2>1. Send(conns + 1, now) /\ now \in Nat \cup {Never}
    BY <1>3, <1>4 DEF TypeOK
  <2>2. /\ seq' \in 0 .. SeqMod - 1
        /\ requests' \subseteq Request
        /\ NumberInv'
        /\ QuietInv'
    BY <1>2, <1>3, <1>4, <2>1, SendIsQuiet
  <2>3. pc' = "wait"
    BY <2>1 DEF Send
  <2>4. TypeOK'
    BY <1>1, <1>2, <1>3, <1>4, <2>2, <2>3 DEF TypeOK, Connected
  <2>5. CallInv' /\ ReplyMatchesCall'
    BY <1>3, <1>4, <2>3 DEF CallInv, ReplyMatchesCall
  <2>6. QED
    BY <2>2, <2>4, <2>5
<1>5. CASE Ends(Bound) /\ UNCHANGED <<seq, requests>>
  <2>1. results' \in Seq(Result) /\ ReplyMatchesCall'
    BY <1>5, EndsWithoutReply
  <2>2. TypeOK'
    BY <1>1, <1>2, <1>3, <1>5, <2>1 DEF TypeOK, Connected, Ends
  <2>3. UnderWay' = {}
    BY <1>2, <1>3, <1>5 DEF UnderWay
  <2>4. CallInv' /\ QuietInv'
    BY <1>3, <1>5, <2>3 DEF Ends, CallInv, QuietInv
  <2>5. NumberInv'
    BY <1>2, <1>3, <1>5 DEF NumberInv, TypeOK, Request
  <2>6. QED
    BY <2>1, <2>2, <2>4, <2>5
<1>6. QED
  BY <1>4, <1>5 DEF Connected

(* A handshake that raises leaves a quiet connection behind. *)
LEMMA HandshakeRaisesReply ==
  ASSUME ReplyInv, HandshakeRaises, cache' \in Cache, cacheTime' \in Nat, faults' \in Nat
  PROVE  ReplyInv'
<1> USE DEF ReplyInv, worldVars
<1>1. Ends(Raised) /\ conn' = conns + 1 /\ replies' = <<>> /\ requests' = requests
  BY DEF HandshakeRaises
<1>2. results' \in Seq(Result) /\ ReplyMatchesCall'
  BY <1>1, EndsWithoutReply
<1>3. /\ conns \in Nat /\ conns' \in Nat /\ conns <= conns'
      /\ conns + 1 \in Nat \ {0} /\ conns + 1 <= conns'
      /\ \A r \in requests : r.conn # conns + 1
  BY FreshConnection DEF HandshakeRaises
<1>4. TypeOK'
  BY <1>1, <1>2, <1>3 DEF TypeOK, HandshakeRaises, Ends
<1>5. UnderWay' = {}
  BY <1>1, <1>3 DEF UnderWay
<1>6. CallInv' /\ QuietInv'
  BY <1>1, <1>5 DEF Ends, CallInv, QuietInv
<1>7. NumberInv'
  BY <1>1, <1>3 DEF NumberInv, TypeOK, Request
<1>8. QED
  BY <1>2, <1>4, <1>6, <1>7

LEMMA NotAFederatorReply ==
  ASSUME ReplyInv, NotAFederator
  PROVE  ReplyInv'
<1>1. cache' \in Cache /\ cacheTime' \in Nat
  BY FetchedType DEF NotAFederator, ReplyInv
<1>2. faults' \in Nat
  BY DEF NotAFederator, ReplyInv, TypeOK
<1>3. QED
  BY <1>1, <1>2, HandshakeRaisesReply DEF NotAFederator

LEMMA FetchRaisesReply ==
  ASSUME ReplyInv, FetchRaises
  PROVE  ReplyInv'
<1>1. cache' \in Cache /\ cacheTime' \in Nat /\ faults' \in Nat
  BY DEF FetchRaises, Fault, ReplyInv, TypeOK, cacheVars
<1>2. QED
  BY <1>1, HandshakeRaisesReply DEF FetchRaises

-----------------------------------------------------------------------------
(* The peer, the clock and the contract. *)

LEMMA ExecuteReply ==
  ASSUME ReplyInv, NEW r \in requests, Execute(r)
  PROVE  ReplyInv'
<1> USE DEF ReplyInv, proxyVars, cacheVars, callVars, worldVars
<1>1. r \in Request /\ requests' = requests \ {r}
  BY DEF Execute, TypeOK
<1>2. TypeOK'
  BY <1>1 DEF Execute, TypeOK
<1>3. CallInv' /\ NumberInv' /\ ReplyMatchesCall'
  BY <1>1 DEF Execute, CallInv, NumberInv, ReplyMatchesCall
<1>4. QuietInv'
  <2>1. CASE r.conn # conn
    <3>1. UnderWay' = UnderWay /\ replies' = replies
      BY <1>1, <2>1 DEF Execute, UnderWay
    <3>2. QED
      BY <3>1 DEF Execute, QuietInv, ThisCall
  <2>2. CASE r.conn = conn
    <3>1. r \in UnderWay
      BY <2>2 DEF UnderWay
    <3>2. pc = "wait" /\ r.call = ThisCall /\ replies = <<>>
      BY <3>1 DEF QuietInv
    <3>3. UnderWay' = {}
      <4>1. \A q \in UnderWay : q = r
        BY <3>1, <3>2 DEF QuietInv
      <4>2. QED
        BY <1>1, <4>1 DEF Execute, UnderWay
    <3>4. replies' = <<r>>
      BY <2>2, <3>2 DEF Execute
    <3>5. ThisCall' = ThisCall /\ pc' = pc
      BY DEF Execute, ThisCall
    <3>6. QED
      BY <3>2, <3>3, <3>4, <3>5 DEF QuietInv
  <2>3. QED
    BY <2>1, <2>2
<1>5. QED
  BY <1>2, <1>3, <1>4

LEMMA WorldReply ==
  ASSUME ReplyInv, Tick \/ ChangeFederators
  PROVE  ReplyInv'
<1> USE DEF ReplyInv, proxyVars, cacheVars, callVars, wireVars
<1>1. TypeOK'
  <2>1. listed' \in BOOLEAN
    BY Zenon DEF Tick, ChangeFederators, TypeOK
  <2>2. listedAt' \subseteq Nat
    <3>1. now \in Nat /\ now + 1 \in Nat /\ listedAt \subseteq Nat
      BY DEF TypeOK
    <3>2. listedAt' \subseteq listedAt \cup {now, now + 1}
      BY DEF Tick, ChangeFederators
    <3>3. QED
      BY <3>1, <3>2
  <2>3. {now', listings', faults'} \subseteq Nat
    BY DEF Tick, ChangeFederators, TypeOK
  <2>4. UNCHANGED <<proxyVars, cacheVars, callVars, wireVars>>
    BY DEF Tick, ChangeFederators
  <2>5. QED
    BY <2>1, <2>2, <2>3, <2>4 DEF TypeOK
<1>2. CallInv' /\ NumberInv' /\ QuietInv' /\ ReplyMatchesCall'
  BY DEF Tick, ChangeFederators, CallInv, NumberInv, QuietInv, UnderWay, ThisCall,
     ReplyMatchesCall
<1>3. QED
  BY <1>1, <1>2

LEMMA StutterReply ==
  ASSUME ReplyInv, UNCHANGED vars
  PROVE  ReplyInv'
BY DEF ReplyInv, vars, proxyVars, cacheVars, callVars, wireVars, worldVars, TypeOK,
   CallInv, NumberInv, QuietInv, UnderWay, ThisCall, ReplyMatchesCall

LEMMA NextReply ==
  ReplyInv /\ [Next]_vars => ReplyInv'
<1> SUFFICES ASSUME ReplyInv, [Next]_vars
             PROVE  ReplyInv'
  OBVIOUS
<1>1. ASSUME NEW t \in Thread,
             \/ Invoke(t) \/ _pyroBind(t) \/ NotOwner(t)
             \/ Release(t) \/ _pyroClaimOwnership(t) \/ get_peers(t)
      PROVE  ReplyInv'
  BY <1>1, InvokeReply, BindReply, NotOwnerReply, ReleaseReply, ClaimOwnershipReply,
     GetPeersReply
<1>2. CASE Proceed
  BY <1>2, ReceiveReplyReply, CommunicationErrorReply, CannotConnectReply, ConnectedReply,
     NotAFederatorReply, FetchRaisesReply DEF Proceed
<1>3. ASSUME NEW r \in requests, Execute(r)
      PROVE  ReplyInv'
  BY <1>3, ExecuteReply
<1>4. CASE Tick \/ ChangeFederators
  BY <1>4, WorldReply
<1>5. CASE UNCHANGED vars
  BY <1>5, StutterReply
<1>6. QED
  BY <1>1, <1>2, <1>3, <1>4, <1>5 DEF Next

LEMMA ReplyInvariant ==
  Spec => []ReplyInv
<1>1. QED
  BY InitReply, NextReply, PTL DEF Spec

(* Every variable of the proxy and the network keeps its type. *)
THEOREM TypeCorrect ==
  Spec => []TypeOK
<1>1. ReplyInv => TypeOK
  BY DEF ReplyInv
<1>2. QED
  BY <1>1, ReplyInvariant, PTL

(* No call of _pyroInvoke returns the reply to another call, for any number *)
(* of calls and timeouts and any modulus of the sequence numbers: a reply   *)
(* that comes late is on a connection that _pyroRelease has closed.         *)
THEOREM RepliesMatchCalls ==
  Spec => []ReplyMatchesCall
<1>1. ReplyInv => ReplyMatchesCall
  BY DEF ReplyInv
<1>2. QED
  BY <1>1, ReplyInvariant, PTL

-----------------------------------------------------------------------------
(* Who is asked *)

(* The peer was a federator less than the refetch interval before a time. *)
WasFederator(at) ==
    \E t \in listedAt : t <= at /\ (t = at \/ at - t < Refetch)

(* What the cache says of the peer was so at its timestamp; a connection    *)
(* that a thread may still use was validated against such an answer.        *)
PeerInv ==
    /\ cacheTime <= now
    /\ cache = "in" => cacheTime \in listedAt
    /\ listed => now \in listedAt
    /\ conn # 0 => dropped \/ WasFederator(validatedAt)
    /\ dropped => pc = "idle"
    /\ OnlyFederatorsAreAsked

(* A request that is sent over a validated connection joins the others. *)
LEMMA SendAsks ==
  ASSUME TypeOK, OnlyFederatorsAreAsked, NEW c, NEW at, Send(c, at),
         listedAt' = listedAt, WasFederator(at)
  PROVE  OnlyFederatorsAreAsked'
BY DEF OnlyFederatorsAreAsked, Send, WasFederator

LEMMA InvokePeer ==
  ASSUME TypeOK, PeerInv, NEW t \in Thread, Invoke(t)
  PROVE  PeerInv'
<1> USE DEF cacheVars, worldVars
<1>1. UNCHANGED <<conn, dropped, cacheVars, validatedAt, worldVars>> /\ ~dropped
  BY DEF Invoke, InHand
<1>2. OnlyFederatorsAreAsked'
  <2>1. CASE conn # 0 /\ Send(conn, validatedAt)
    <3>1. WasFederator(validatedAt)
      BY <1>1, <2>1 DEF PeerInv
    <3>2. QED
      BY <1>1, <2>1, <3>1, SendAsks DEF PeerInv
  <2>2. CASE requests' = requests
    BY <1>1, <2>2 DEF PeerInv, OnlyFederatorsAreAsked
  <2>3. QED
    BY <2>1, <2>2 DEF Invoke
<1>3. QED
  BY <1>1, <1>2 DEF PeerInv, WasFederator

LEMMA ConnectedPeer ==
  ASSUME TypeOK, PeerInv, Connected
  PROVE  PeerInv'
<1> USE DEF worldVars, cacheVars
<1>1. cacheTime' <= now /\ cacheTime' \in listedAt /\ cacheTime' \in Nat
  BY DEF Connected, _get_peer_addresses, Fresh, PeerInv, TypeOK
<1>2. cacheTime' = now \/ now - cacheTime' < Refetch
  BY DEF Connected, _get_peer_addresses, Fresh, PeerInv, TypeOK
<1>3. validatedAt' = now /\ listedAt' = listedAt /\ now' = now /\ listed' = listed
  BY DEF Connected
<1>4. WasFederator(now) /\ WasFederator(validatedAt)'
  BY <1>1, <1>2, <1>3 DEF WasFederator
<1>5. OnlyFederatorsAreAsked'
  <2>1. CASE Send(conn', now)
    BY <1>3, <1>4, <2>1, SendAsks DEF PeerInv
  <2>2. CASE requests' = requests
    BY <1>3, <2>2 DEF PeerInv, OnlyFederatorsAreAsked
  <2>3. QED
    BY <2>1, <2>2 DEF Connected
<1>6. dropped' = dropped /\ ~dropped
  BY DEF Connected, PeerInv
<1>7. QED
  BY <1>1, <1>3, <1>4, <1>5, <1>6 DEF PeerInv

(* A handshake that raises drops the proxy, whatever it has cached. *)
LEMMA HandshakeRaisesPeer ==
  ASSUME TypeOK, PeerInv, HandshakeRaises, cacheTime' <= now,
         cache' = "in" => cacheTime' \in listedAt
  PROVE  PeerInv'
<1>1. /\ dropped' /\ pc' = "idle"
      /\ requests' = requests /\ UNCHANGED <<listed, listedAt, now>>
  BY DEF HandshakeRaises, Ends, worldVars
<1>2. QED
  BY <1>1 DEF PeerInv, OnlyFederatorsAreAsked

LEMMA NotValidatedPeer ==
  ASSUME TypeOK, PeerInv, NotAFederator \/ FetchRaises
  PROVE  PeerInv'
<1>1. CASE NotAFederator
  <2>1. HandshakeRaises /\ cache' = "out" /\ cacheTime' <= now
    BY <1>1 DEF NotAFederator, _get_peer_addresses, PeerInv, TypeOK, cacheVars
  <2>2. QED
    BY <2>1, HandshakeRaisesPeer
<1>2. CASE FetchRaises
  <2>1. HandshakeRaises /\ cache' = cache /\ cacheTime' = cacheTime
    BY <1>2 DEF FetchRaises, cacheVars
  <2>2. QED
    BY <2>1, HandshakeRaisesPeer DEF PeerInv
<1>3. QED
  BY <1>1, <1>2

(* The clock and the contract only add to the times of membership. *)
LEMMA WorldPeer ==
  ASSUME TypeOK, PeerInv, Tick \/ ChangeFederators
  PROVE  PeerInv'
<1> USE DEF proxyVars, cacheVars, callVars, wireVars
<1>1. /\ listedAt \subseteq listedAt'
      /\ UNCHANGED <<conn, dropped, cache, cacheTime, pc, requests, validatedAt>>
  BY DEF Tick, ChangeFederators
<1>2. OnlyFederatorsAreAsked' /\ (WasFederator(validatedAt) => WasFederator(validatedAt)')
  BY <1>1 DEF PeerInv, OnlyFederatorsAreAsked, WasFederator
<1>3. cacheTime' <= now' /\ (listed' => now' \in listedAt')
  BY DEF Tick, ChangeFederators, PeerInv, TypeOK
<1>4. QED
  BY <1>1, <1>2, <1>3 DEF PeerInv

(* Every other step sends nothing, and keeps the connection or closes it.   *)
LEMMA OtherPeer ==
  ASSUME TypeOK, PeerInv, UNCHANGED worldVars, requests' \subseteq requests,
         cacheTime' <= now, cache' = "in" => cacheTime' \in listedAt,
         conn' = 0 \/ UNCHANGED <<conn, validatedAt, dropped>>,
         dropped' => dropped /\ pc' = "idle"
  PROVE  PeerInv'
BY DEF PeerInv, OnlyFederatorsAreAsked, WasFederator, worldVars

LEMMA NextPeer ==
  TypeOK /\ PeerInv /\ [Next]_vars => PeerInv'
<1> SUFFICES ASSUME TypeOK, PeerInv, [Next]_vars
             PROVE  PeerInv'
  OBVIOUS
<1> USE DEF proxyVars, cacheVars, callVars, wireVars
<1>0. cacheTime <= now /\ (cache = "in" => cacheTime \in listedAt) /\ (dropped => pc = "idle")
  BY DEF PeerInv
<1>1. ASSUME NEW t \in Thread,
             \/ _pyroBind(t) \/ NotOwner(t) \/ Release(t) \/ _pyroClaimOwnership(t)
      PROVE  PeerInv'
  <2>1. /\ UNCHANGED <<worldVars, requests, cacheVars>>
        /\ conn' = 0 \/ UNCHANGED <<conn, validatedAt>>
        /\ dropped' = dropped
        /\ dropped => pc' = pc
    BY <1>1 DEF _pyroBind, NotOwner, Raises, Ends, Release, _pyroRelease, InHand,
       _pyroClaimOwnership
  <2>2. QED
    BY <1>0, <2>1, OtherPeer
<1>2. ASSUME NEW t \in Thread, get_peers(t)
      PROVE  PeerInv'
  <2>1. /\ UNCHANGED <<worldVars, requests>> /\ conn' = 0 /\ ~dropped'
        /\ cache' = "none" /\ cacheTime' = 0 /\ now \in Nat
    BY <1>2 DEF get_peers, _pyroRelease, TypeOK
  <2>2. QED
    BY <2>1, OtherPeer
<1>3. CASE ReceiveReply \/ CommunicationError \/ CannotConnect
  <2>1. /\ UNCHANGED <<worldVars, requests, cacheVars>>
        /\ conn' = 0 \/ UNCHANGED <<conn, validatedAt>>
        /\ dropped' = dropped /\ pc' = "idle"
    BY <1>3 DEF ReceiveReply, CommunicationError, CannotConnect, Ends, _pyroRelease
  <2>2. QED
    BY <1>0, <2>1, OtherPeer
<1>4. ASSUME NEW r \in requests, Execute(r)
      PROVE  PeerInv'
  <2>1. /\ UNCHANGED <<worldVars, cacheVars, conn, validatedAt, dropped, pc>>
        /\ requests' \subseteq requests
    BY <1>4 DEF Execute
  <2>2. QED
    BY <1>0, <2>1, OtherPeer
<1>5. CASE UNCHANGED vars
  BY <1>0, <1>5, OtherPeer DEF vars
<1>6. QED
  BY <1>1, <1>2, <1>3, <1>4, <1>5, InvokePeer, ConnectedPeer, NotValidatedPeer, WorldPeer
     DEF Next, Proceed

(* However connections fail and federators change, every request is sent    *)
(* over a validated connection, to a peer that the contract listed less     *)
(* than the refetch interval before: PyroNetwork drops the proxy whose      *)
(* handshake raised, and with it the connection that stayed open.           *)
THEOREM PeersAreFederators ==
  Spec => []OnlyFederatorsAreAsked
<1>1. Init => PeerInv
  BY DEF Init, PeerInv, OnlyFederatorsAreAsked
<1>2. PeerInv => OnlyFederatorsAreAsked
  BY DEF PeerInv
<1>3. QED
  BY <1>1, <1>2, NextPeer, TypeCorrect, PTL DEF Spec
=============================================================================
