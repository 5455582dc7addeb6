--------------------------- MODULE StartupProofs ----------------------------
(***************************************************************************)
(* Theorems about Target and Startup: the URLs that Target::parse makes of *)
(* any path agree with each other, the start identifies the client, and    *)
(* it gives the metadata service up only when it has to.                   *)
(***************************************************************************)
EXTENDS Startup, WellFoundedInduction, SequenceTheorems, TLAPS

(* The segments that the code names.                                       *)
LEMMA NamedSegments ==
    /\ Empty \in Segments
    /\ "ws" \in Segments
    /\ "response" \in Segments
BY DEF Segments

(* A set of natural numbers has a least element.                           *)
LEMMA LeastExists ==
    ASSUME NEW S, S \subseteq Nat, S # {}
    PROVE  \E n \in S : \A k \in S : n <= k
<1>1. PICK n \in S : \A k \in S : ~(<<k, n>> \in OpToRel(<, Nat))
  BY WFMin, NatLessThanWellFounded, Zenon
<1>2. \A k \in S : ~(k < n)
  BY <1>1, Zenon DEF OpToRel
<1>3. \A k \in S : n <= k
  <2> TAKE k \in S
  <2>1. k \in Nat /\ n \in Nat
    OBVIOUS
  <2>2. ~(k < n)
    BY <1>2
  <2> QED
    BY <2>1, <2>2
<1> QED
  BY <1>3

(* The end of a list is all in Blank from some place on that is not.       *)
LEMMA LastOutside ==
    ASSUME NEW len \in Nat, NEW Blank
    PROVE  \E n \in 0..len : /\ n > 0 => n \notin Blank
                            /\ \A i \in (n + 1)..len : i \in Blank
<1> DEFINE S == {n \in 0..len : \A i \in (n + 1)..len : i \in Blank}
<1>1. len \in S
  OBVIOUS
<1>2. S \subseteq Nat
  OBVIOUS
<1>3. PICK n \in S : \A k \in S : n <= k
  <2> HIDE DEF S
  <2> QED
    BY <1>1, <1>2, LeastExists
<1>4. n \in 0..len /\ \A i \in (n + 1)..len : i \in Blank
  BY <1>3
<1>5. ASSUME n > 0, n \in Blank PROVE FALSE
  <2>1. n - 1 \in S
    BY <1>4, <1>5
  <2>2. n <= n - 1
    BY <1>3, <2>1
  <2> QED
    BY <1>4, <2>2
<1> QED
  BY <1>4, <1>5

(* trim_end_matches leaves a path without trailing slashes, and drops      *)
(* nothing but slashes.                                                    *)
LEMMA TrimmedLengthBounds ==
    ASSUME NEW path \in Seq(Segments)
    PROVE  /\ TrimmedLength(path) \in 0..Len(path)
           /\ TrimmedLength(path) > 0 => path[TrimmedLength(path)] # Empty
           /\ \A i \in (TrimmedLength(path) + 1)..Len(path) : path[i] = Empty
<1> DEFINE Blank == {i \in 1..Len(path) : path[i] = Empty}
<1>1. Len(path) \in Nat
  OBVIOUS
<1>2. PICK n \in 0..Len(path) : /\ n > 0 => n \notin Blank
                               /\ \A i \in (n + 1)..Len(path) : i \in Blank
  <2> HIDE DEF Blank
  <2> QED
    BY <1>1, LastOutside
<1>3. /\ n > 0 => path[n] # Empty
      /\ \A i \in (n + 1)..Len(path) : path[i] = Empty
  <2>1. n > 0 => n \in 1..Len(path)
    BY <1>1
  <2>2. (n + 1)..Len(path) \subseteq 1..Len(path)
    BY <1>1
  <2> QED
    BY <1>2, <2>1, <2>2, Zenon
<1> QED
  BY <1>3 DEF TrimmedLength

(* The first segments of a path.                                           *)
LEMMA PrefixProperties ==
    ASSUME NEW path \in Seq(Segments), NEW n \in 0..Len(path)
    PROVE  /\ SubSeq(path, 1, n) \in Seq(Segments)
           /\ Len(SubSeq(path, 1, n)) = n
           /\ \A i \in 1..n : SubSeq(path, 1, n)[i] = path[i]
<1>1. Len(path) \in Nat /\ n \in Int /\ n - 1 + 1 = n
  OBVIOUS
<1>2. \A i \in 1..n : path[i] \in Segments
  <2> TAKE i \in 1..n
  <2>1. i \in 1..Len(path)
    BY <1>1
  <2> QED
    BY <2>1, ElementOfSeq
<1>3. /\ SubSeq(path, 1, n) \in Seq(Segments)
      /\ Len(SubSeq(path, 1, n)) = IF 1 <= n THEN n - 1 + 1 ELSE 0
      /\ \A i \in 1..(n - 1 + 1) : SubSeq(path, 1, n)[i] = path[1 + i - 1]
  BY <1>1, <1>2, SubSeqProperties
<1> QED
  BY <1>1, <1>3

LEMMA TrimIsTrimmed ==
    ASSUME NEW path \in Seq(Segments)
    PROVE  /\ Trim(path) \in Seq(Segments)
           /\ ~EndsWith(Trim(path), Empty)
<1> DEFINE n == TrimmedLength(path)
<1>1. n \in 0..Len(path)
  BY TrimmedLengthBounds
<1>2. n > 0 => path[n] # Empty
  BY TrimmedLengthBounds
<1> HIDE DEF n
<1>3. Trim(path) = SubSeq(path, 1, n)
  BY DEF Trim, n
<1>4. /\ Trim(path) \in Seq(Segments)
      /\ Len(Trim(path)) = n
      /\ \A i \in 1..n : Trim(path)[i] = path[i]
  BY <1>1, <1>3, PrefixProperties
<1>5. n = 0 \/ (n > 0 /\ n \in 1..n)
  <2>1. Len(path) \in Nat
    OBVIOUS
  <2> QED
    BY <1>1, <2>1
<1>6. n = 0 => Trim(path) = <<>>
  BY <1>4, EmptySeq
<1> QED
  BY <1>2, <1>4, <1>5, <1>6, Zenon DEF EndsWith

(* A trimmed path and one slash are trimmed to the path.                   *)
LEMMA TrimUndoesSlash ==
    ASSUME NEW path \in Seq(Segments), ~EndsWith(path, Empty)
    PROVE  Trim(Append(path, Empty)) = path
<1> DEFINE long == Append(path, Empty)
           n == TrimmedLength(long)
<1>1. Len(path) \in Nat
  OBVIOUS
<1>2. /\ long \in Seq(Segments)
      /\ Len(long) = Len(path) + 1
      /\ long[Len(path) + 1] = Empty
      /\ \A i \in 1..Len(path) : long[i] = path[i]
  BY AppendProperties, NamedSegments
<1> HIDE DEF long
<1>3. n \in 0..(Len(path) + 1)
  BY <1>2, TrimmedLengthBounds
<1>4. /\ n > 0 => long[n] # Empty
      /\ \A i \in (n + 1)..(Len(path) + 1) : long[i] = Empty
  BY <1>2, TrimmedLengthBounds
<1> HIDE DEF n
<1>5. n # Len(path) + 1
  <2>1. Len(path) + 1 > 0
    BY <1>1
  <2> QED
    BY <1>2, <1>4, <2>1, Zenon
<1>6. ASSUME Len(path) \in (n + 1)..(Len(path) + 1), Len(path) \in 1..Len(path)
      PROVE  FALSE
  <2>1. path[Len(path)] = Empty
    BY <1>2, <1>4, <1>6, Zenon
  <2>2. path # <<>>
    BY <1>6, <1>1, EmptySeq
  <2> QED
    BY <2>1, <2>2 DEF EndsWith
<1>7. n = Len(path)
  BY <1>1, <1>3, <1>5, <1>6
<1>8. Trim(long) = SubSeq(long, 1, n)
  BY DEF Trim, n
<1>9. n \in 0..Len(long)
  BY <1>1, <1>2, <1>3
<1>10. /\ Trim(long) \in Seq(Segments)
       /\ Len(Trim(long)) = Len(path)
       /\ \A i \in 1..Len(path) : Trim(long)[i] = long[i]
  BY <1>2, <1>7, <1>8, <1>9, PrefixProperties
<1>11. Trim(long) = path
  BY <1>2, <1>10, SeqEqual
<1> QED
  BY <1>11 DEF long

-----------------------------------------------------------------------------
(* Appending and popping segments.                                         *)
LEMMA PopAppend ==
    ASSUME NEW path \in Seq(Segments), NEW segment \in Segments
    PROVE  /\ Append(path, segment) \in Seq(Segments)
           /\ Pop(Append(path, segment)) = path
           /\ \A other : EndsWith(Append(path, segment), other) <=> segment = other
<1> DEFINE long == Append(path, segment)
<1>1. Len(path) \in Nat
  OBVIOUS
<1>2. /\ long \in Seq(Segments)
      /\ long # <<>>
      /\ Len(long) = Len(path) + 1
      /\ long[Len(path) + 1] = segment
      /\ \A i \in 1..Len(path) : long[i] = path[i]
  BY AppendProperties
<1> HIDE DEF long
<1>3. Pop(long) = SubSeq(long, 1, Len(path))
  BY <1>1, <1>2 DEF Pop
<1>4. Len(path) \in 0..Len(long)
  BY <1>1, <1>2
<1>5. /\ Pop(long) \in Seq(Segments)
      /\ Len(Pop(long)) = Len(path)
      /\ \A i \in 1..Len(path) : Pop(long)[i] = long[i]
  BY <1>2, <1>3, <1>4, PrefixProperties
<1>6. Pop(long) = path
  BY <1>2, <1>5, SeqEqual
<1>7. \A other : EndsWith(long, other) <=> segment = other
  BY <1>2, Zenon DEF EndsWith
<1> QED
  BY <1>2, <1>6, <1>7 DEF long

LEMMA AppendPop ==
    ASSUME NEW path \in Seq(Segments), NEW segment \in Segments, EndsWith(path, segment)
    PROVE  /\ Pop(path) \in Seq(Segments)
           /\ Append(Pop(path), segment) = path
<1>1. Len(path) \in Nat /\ path # <<>> /\ path[Len(path)] = segment
  BY DEF EndsWith
<1>2. Len(path) > 0
  BY <1>1, EmptySeq
<1>3. Len(path) - 1 \in 0..Len(path) /\ (Len(path) - 1) + 1 = Len(path)
  BY <1>1, <1>2
<1>4. /\ Pop(path) \in Seq(Segments)
      /\ Len(Pop(path)) = Len(path) - 1
      /\ \A i \in 1..(Len(path) - 1) : Pop(path)[i] = path[i]
  BY <1>3, PrefixProperties DEF Pop
<1> DEFINE long == Append(Pop(path), segment)
<1>5. /\ long \in Seq(Segments)
      /\ Len(long) = Len(path)
      /\ long[Len(path)] = segment
      /\ \A i \in 1..(Len(path) - 1) : long[i] = path[i]
  <2>1. /\ long \in Seq(Segments)
        /\ Len(long) = (Len(path) - 1) + 1
        /\ long[(Len(path) - 1) + 1] = segment
        /\ \A i \in 1..(Len(path) - 1) : long[i] = Pop(path)[i]
    BY <1>4, AppendProperties
  <2> HIDE DEF long
  <2> QED
    BY <1>3, <1>4, <2>1
<1> HIDE DEF long
<1>6. \A i \in 1..Len(path) : i \in 1..(Len(path) - 1) \/ i = Len(path)
  BY <1>1
<1>7. long = path
  BY <1>1, <1>5, <1>6, SeqEqual
<1> QED
  BY <1>4, <1>7 DEF long

(* The path of the endpoint under a base.                                  *)
LEMMA EndpointOf ==
    ASSUME NEW path \in Seq(Segments)
    PROVE  path \o <<"ws", Empty>> = Append(Append(path, "ws"), Empty)
BY NamedSegments

-----------------------------------------------------------------------------
(* A trimmed path that names the endpoint, and one that names the base.    *)
LEMMA EndpointNamed ==
    ASSUME NEW path \in Seq(Segments), EndsWith(path, "ws")
    PROVE  /\ WsPath(path) = Append(path, Empty)
           /\ BasePath(path) = WithTrailingSlash(Pop(path))
<1>1. ~EndsWith(path, Empty)
  <2>1. Empty # "ws"
    BY Zenon DEF Empty
  <2> QED
    BY <2>1, Zenon DEF EndsWith
<1> QED
  BY <1>1, Zenon DEF WsPath, BasePath, WithTrailingSlash

LEMMA BaseNamed ==
    ASSUME NEW path \in Seq(Segments), ~EndsWith(path, "ws"), ~EndsWith(path, Empty)
    PROVE  /\ BasePath(path) = Append(path, Empty)
           /\ WsPath(path) = Append(Append(path, "ws"), Empty)
<1>1. BasePath(path) = Append(path, Empty)
  BY Zenon DEF BasePath, WithTrailingSlash
<1>2. Pop(Append(path, Empty)) = path
  BY PopAppend, NamedSegments
<1>3. WsPath(path) = path \o <<"ws", Empty>>
  BY <1>1, <1>2, Zenon DEF WsPath
<1> QED
  BY <1>1, <1>3, EndpointOf

(* The endpoint of a target names the same endpoint and the same base.     *)
LEMMA EndpointIsFixed ==
    ASSUME NEW path \in Seq(Segments), ~EndsWith(path, Empty)
    PROVE  /\ WsPath(path) \in Seq(Segments)
           /\ WsPath(Trim(WsPath(path))) = WsPath(path)
           /\ BasePath(Trim(WsPath(path))) = BasePath(path)
<1>1. CASE EndsWith(path, "ws")
  <2>1. WsPath(path) = Append(path, Empty)
    BY <1>1, EndpointNamed
  <2>2. Trim(WsPath(path)) = path
    BY <2>1, TrimUndoesSlash
  <2> QED
    BY <2>1, <2>2, PopAppend, NamedSegments
<1>2. CASE ~EndsWith(path, "ws")
  <2> DEFINE endpoint == Append(path, "ws")
  <2>1. /\ endpoint \in Seq(Segments)
        /\ Pop(endpoint) = path
        /\ EndsWith(endpoint, "ws")
        /\ ~EndsWith(endpoint, Empty)
    <3>1. Empty # "ws"
      BY Zenon DEF Empty
    <3> QED
      BY <3>1, PopAppend, NamedSegments, Zenon
  <2>2. /\ BasePath(path) = Append(path, Empty)
        /\ WsPath(path) = Append(endpoint, Empty)
    BY <1>2, BaseNamed
  <2> HIDE DEF endpoint
  <2>3. Trim(WsPath(path)) = endpoint
    BY <2>1, <2>2, TrimUndoesSlash
  <2>4. /\ WsPath(endpoint) = Append(endpoint, Empty)
        /\ BasePath(endpoint) = WithTrailingSlash(path)
    BY <2>1, EndpointNamed
  <2>5. WithTrailingSlash(path) = Append(path, Empty)
    BY Zenon DEF WithTrailingSlash
  <2>6. WsPath(path) \in Seq(Segments)
    BY <2>1, <2>2, PopAppend, NamedSegments
  <2> QED
    BY <2>2, <2>3, <2>4, <2>5, <2>6
<1> QED
  BY <1>1, <1>2

(* Without an empty segment the endpoint is "ws" under the base.           *)
LEMMA EndpointUnderBase ==
    ASSUME NEW path \in Seq(Segments), \A i \in DOMAIN path : path[i] # Empty
    PROVE  WsPath(path) = Pop(BasePath(path)) \o <<"ws", Empty>>
<1>1. ASSUME NEW p \in Seq(Segments), ~EndsWith(p, Empty)
      PROVE  Pop(WithTrailingSlash(p)) = p
  BY <1>1, PopAppend, NamedSegments, Zenon DEF WithTrailingSlash
<1>2. CASE ~EndsWith(path, "ws")
  BY <1>2, Zenon DEF WsPath
<1>3. CASE EndsWith(path, "ws")
  <2> DEFINE base == Pop(path)
  <2>1. base \in Seq(Segments) /\ Append(base, "ws") = path
    BY <1>3, AppendPop, NamedSegments
  <2>2. WsPath(path) = Append(path, Empty) /\ BasePath(path) = WithTrailingSlash(base)
    BY <1>3, EndpointNamed
  <2> HIDE DEF base
  <2>3. ~EndsWith(base, Empty)
    <3> SUFFICES ASSUME base # <<>>, base[Len(base)] = Empty PROVE FALSE
      BY Zenon DEF EndsWith
    <3>1. Len(base) \in Nat /\ Len(base) # 0
      BY <2>1, EmptySeq
    <3>2. Len(base) \in 1..Len(base) /\ Len(base) \in 1..(Len(base) + 1)
      BY <3>1
    <3>3. path[Len(base)] = base[Len(base)] /\ Len(path) = Len(base) + 1
      BY <2>1, <3>2, AppendProperties, NamedSegments
    <3>4. DOMAIN path = 1..Len(path)
      OBVIOUS
    <3> QED
      BY <3>2, <3>3, <3>4
  <2>4. Pop(BasePath(path)) = base
    BY <1>1, <2>1, <2>2, <2>3
  <2> QED
    BY <2>1, <2>2, <2>4, EndpointOf
<1> QED
  BY <1>2, <1>3

(* Both URLs are encrypted if and only if the target is, and the scheme of *)
(* the endpoint stands for the same two.                                   *)
LEMMA SchemesAgree ==
    ASSUME NEW scheme \in Supported
    PROVE  /\ WsScheme[scheme] \in Supported
           /\ WsScheme[WsScheme[scheme]] = WsScheme[scheme]
           /\ HttpScheme[WsScheme[scheme]] = HttpScheme[scheme]
           /\ WsScheme[scheme] \in {"https", "wss"} <=> scheme \in {"https", "wss"}
           /\ HttpScheme[scheme] \in {"https", "wss"} <=> scheme \in {"https", "wss"}
BY DEF Supported, WsScheme, HttpScheme

(* Target::parse of any URL with a supported scheme.                       *)
LEMMA ParseAgrees ==
    ASSUME NEW url \in Urls, url.scheme \in Supported
    PROVE  LET target == Parse(url) IN
           /\ Secure(target.ws) = Secure(url)
           /\ Secure(target.base) = Secure(url)
           /\ Parse(target.ws) = target
           /\ Regular(url.path) => target.ws.path = Pop(target.base.path) \o <<"ws", Empty>>
<1> DEFINE target == Parse(url)
           path == Trim(url.path)
<1>1. path \in Seq(Segments) /\ ~EndsWith(path, Empty) /\ url.path \in Seq(Segments)
  BY TrimIsTrimmed DEF Urls
<1>2. /\ target.ws.scheme = WsScheme[url.scheme]
      /\ target.ws.path = WsPath(path)
      /\ target.base.scheme = HttpScheme[url.scheme]
      /\ target.base.path = BasePath(path)
  BY DEF Parse
<1>3. Secure(target.ws) = Secure(url) /\ Secure(target.base) = Secure(url)
  BY <1>2, SchemesAgree DEF Secure
<1>4. Parse(target.ws) = target
  <2>1. /\ WsPath(Trim(target.ws.path)) = WsPath(path)
        /\ BasePath(Trim(target.ws.path)) = BasePath(path)
    BY <1>1, <1>2, EndpointIsFixed
  <2>2. /\ WsScheme[target.ws.scheme] = WsScheme[url.scheme]
        /\ HttpScheme[target.ws.scheme] = HttpScheme[url.scheme]
    BY <1>2, SchemesAgree
  <2> QED
    BY <2>1, <2>2, Zenon DEF Parse
<1>5. ASSUME Regular(url.path)
      PROVE  target.ws.path = Pop(target.base.path) \o <<"ws", Empty>>
  <2>1. \A i \in DOMAIN path : url.path[i] # Empty
    BY <1>5 DEF Regular
  <2>2. \A i \in DOMAIN path : path[i] = url.path[i]
    <3> DEFINE n == TrimmedLength(url.path)
    <3>1. n \in 0..Len(url.path)
      BY <1>1, TrimmedLengthBounds
    <3> HIDE DEF n
    <3>2. Len(path) = n /\ \A i \in 1..n : path[i] = url.path[i]
      <4>1. path = SubSeq(url.path, 1, n)
        BY DEF Trim, n
      <4> QED
        BY <1>1, <3>1, <4>1, PrefixProperties
    <3>3. DOMAIN path = 1..Len(path)
      BY <1>1
    <3> QED
      BY <3>2, <3>3, Zenon
  <2>3. \A i \in DOMAIN path : path[i] # Empty
    BY <2>1, <2>2, Zenon
  <2> HIDE DEF path
  <2> QED
    BY <1>1, <1>2, <2>3, EndpointUnderBase
<1> HIDE DEF target
<1>6. /\ Secure(target.ws) = Secure(url)
      /\ Secure(target.base) = Secure(url)
      /\ Parse(target.ws) = target
      /\ Regular(url.path) => target.ws.path = Pop(target.base.path) \o <<"ws", Empty>>
  BY <1>3, <1>4, <1>5
<1> QED
  BY <1>6 DEF target

(* The base of the response URLs ends in a slash.                          *)
LEMMA BaseIsPath ==
    ASSUME NEW url \in Urls
    PROVE  Pop(Parse(url).base.path) \in Seq(Segments)
<1> DEFINE path == Trim(url.path)
<1>1. path \in Seq(Segments)
  BY TrimIsTrimmed DEF Urls
<1>2. Parse(url).base.path = BasePath(path)
  BY DEF Parse
<1> HIDE DEF path
<1>3. ASSUME NEW p \in Seq(Segments)
      PROVE  Pop(WithTrailingSlash(p)) \in Seq(Segments)
  <2>1. CASE EndsWith(p, Empty)
    BY <2>1, AppendPop, NamedSegments DEF WithTrailingSlash
  <2>2. CASE ~EndsWith(p, Empty)
    BY <2>2, PopAppend, NamedSegments DEF WithTrailingSlash
  <2> QED
    BY <2>1, <2>2
<1>4. EndsWith(path, "ws") => Pop(path) \in Seq(Segments)
  BY <1>1, AppendPop, NamedSegments
<1> QED
  BY <1>1, <1>2, <1>3, <1>4, Zenon DEF BasePath

(* Which requests are answered at the same URL (Target::response_url): a   *)
(* uid is one segment of the path, without its tabs and line breaks, and   *)
(* the uids "." and ".." are none.                                         *)
LEMMA ResponsesThatShareUrls ==
    ASSUME NEW url \in Urls, NEW a \in RequestUids, NEW b \in RequestUids
    PROVE  ResponsePath(Parse(url), a) = ResponsePath(Parse(url), b) <=>
               a.text = b.text \/ {a.text, b.text} \subseteq DotSegments
<1> DEFINE base == Append(Pop(Parse(url).base.path), "response")
<1>1. base \in Seq(Segments)
  BY BaseIsPath, PopAppend, NamedSegments
<1>2. \A uid \in {a, b} : ResponsePath(Parse(url), uid) = Append(Push(base, uid), Empty)
  BY DEF ResponsePath
<1> HIDE DEF base
<1>3. a.text \in Segments /\ b.text \in Segments
  BY DEF RequestUids
<1>4. \A uid \in {a, b} : Push(base, uid) \in Seq(Segments)
  BY <1>1, <1>3, PopAppend DEF Push
<1>5. ResponsePath(Parse(url), a) = ResponsePath(Parse(url), b)
          <=> Push(base, a) = Push(base, b)
  <2>1. \A uid \in {a, b} : Pop(Append(Push(base, uid), Empty)) = Push(base, uid)
    BY <1>4, PopAppend, NamedSegments
  <2> QED
    BY <1>2, <2>1, Zenon
<1>6. \A text \in Segments : Append(base, text) # base
  BY <1>1, AppendProperties
<1>7. \A text \in Segments, other \in Segments :
          Append(base, text) = Append(base, other) => text = other
  <2>1. \A text \in Segments : Append(base, text)[Len(base) + 1] = text
    BY <1>1, AppendProperties
  <2> QED
    BY <2>1, Zenon
<1> QED
  BY <1>3, <1>5, <1>6, <1>7, Zenon DEF Push

-----------------------------------------------------------------------------
(* The instance is that of the configuration or was answered by the        *)
(* service, and the names are checked before the target is parsed.         *)
IdentityInv ==
    /\ stage = "loading" => instance = config.instance
    /\ stage \in Resolving => config.instance = "ec2"
    /\ stage \in {"checking", "parsing", "ready"} =>
          IF config.instance = "ec2" THEN instance \in Ids ELSE instance = config.instance
    /\ stage \in {"parsing", "ready"} => ValidInstance /\ ValidResources
    /\ stage = "ready" => config.target.scheme \in Supported

(* A service of version 2 is asked without a token only after trouble.     *)
TokenInv ==
    stage = "fetching" =>
        /\ token \in {"none", "good", "bad"}
        /\ token = "good" => "v2" \in service
        /\ token = "bad" => "v2" \notin service
        /\ token = "none" /\ "v2" \in service =>
              {"token lost", "token refused"} \cap trouble # {}

(* Every variable keeps its type, for any configuration and service.       *)
THEOREM StartupTypeCorrect == Spec => []TypeOK
<1>1. Init => TypeOK
  BY ConfigurationsAssumption DEF Init, TypeOK, Stages, Tokens
<1>2. TypeOK /\ [Next]_vars => TypeOK'
  <2> SUFFICES ASSUME TypeOK, [Next]_vars PROVE TypeOK'
    OBVIOUS
  <2> USE DEF TypeOK, Stages, Resolving, Tokens, Troubles
  <2>1. CASE Load
    BY <2>1 DEF Load
  <2>2. CASE AskToken
    BY <2>2 DEF AskToken, TokenAnswered, TokenLost, TokenUnusable
  <2>3. CASE FetchInstance
    BY <2>3, IdsAssumption DEF FetchInstance, Accept, Refused, AnswerLost
  <2>4. CASE Check \/ ParseTarget
    BY <2>4 DEF Check, ParseTarget
  <2>5. CASE UNCHANGED vars
    BY <2>5 DEF vars
  <2> QED
    BY <2>1, <2>2, <2>3, <2>4, <2>5 DEF Next
<1> QED
  BY <1>1, <1>2, PTL DEF Spec

LEMMA IdentityHolds == Spec => []IdentityInv
<1>1. Init => IdentityInv
  BY DEF Init, IdentityInv, Resolving
<1>2. IdentityInv /\ [Next]_vars => IdentityInv'
  <2> SUFFICES ASSUME IdentityInv, [Next]_vars PROVE IdentityInv'
    OBVIOUS
  <2> USE DEF IdentityInv, Resolving, ValidInstance, ValidResources
  <2>1. CASE Load
    BY <2>1 DEF Load
  <2>2. CASE AskToken
    BY <2>2 DEF AskToken, TokenAnswered, TokenLost, TokenUnusable
  <2>3. CASE FetchInstance
    BY <2>3 DEF FetchInstance, Accept, Refused, AnswerLost
  <2>4. CASE Check
    BY <2>4 DEF Check
  <2>5. CASE ParseTarget
    BY <2>5 DEF ParseTarget
  <2>6. CASE UNCHANGED vars
    BY <2>6 DEF vars
  <2> QED
    BY <2>1, <2>2, <2>3, <2>4, <2>5, <2>6 DEF Next
<1> QED
  BY <1>1, <1>2, PTL DEF Spec

(* A client that starts is identified by a valid name that its             *)
(* configuration or the metadata service gave it (Config::load).           *)
THEOREM ClientIsIdentified == Spec => []Identified
<1>1. IdentityInv => Identified
  BY DEF IdentityInv, Identified
<1> QED
  BY <1>1, IdentityHolds, PTL

(* The two URLs of a client that starts agree, for every target in its     *)
(* configuration (Target::parse).                                          *)
THEOREM UrlsAgree == Spec => []EndpointsAgree
<1>1. IdentityInv /\ TypeOK => EndpointsAgree
  <2> SUFFICES ASSUME stage = "ready", IdentityInv, TypeOK
               PROVE  EndpointsAgree
    BY DEF EndpointsAgree
  <2>1. config.target \in Urls /\ config.target.scheme \in Supported
    BY ConfigurationsAssumption DEF IdentityInv, TypeOK
  <2> QED
    BY <2>1, ParseAgrees DEF EndpointsAgree
<1> QED
  BY <1>1, IdentityHolds, StartupTypeCorrect, PTL

LEMMA TokenHolds == Spec => []TokenInv
<1>1. Init => TokenInv
  BY DEF Init, TokenInv
<1>2. TokenInv /\ [Next]_vars => TokenInv'
  <2> SUFFICES ASSUME TokenInv, [Next]_vars PROVE TokenInv'
    OBVIOUS
  <2> USE DEF TokenInv
  <2>1. CASE AskToken
    BY <2>1 DEF AskToken, TokenAnswered, TokenLost, TokenUnusable
  <2>2. CASE FetchInstance
    <3>1. CASE Accept \/ AnswerLost
      BY <3>1 DEF Accept, AnswerLost
    <3>2. CASE Refused
      BY <2>2, <3>2 DEF FetchInstance, Refused
    <3> QED
      BY <2>2, <3>1, <3>2 DEF FetchInstance
  <2>3. CASE Load \/ Check \/ ParseTarget
    BY <2>3 DEF Load, Check, ParseTarget
  <2>4. CASE UNCHANGED vars
    BY <2>4 DEF vars
  <2> QED
    BY <2>1, <2>2, <2>3, <2>4 DEF Next
<1> QED
  BY <1>1, <1>2, PTL DEF Spec

(* The start gives up a metadata service only when an answer is lost, when *)
(* the token cannot be sent, or when the service answers neither way, for  *)
(* any service (resolve_instance).                                         *)
THEOREM MetadataFallsBack == Spec => FallsBack
<1>1. TokenInv /\ [Next]_vars =>
          [stage' = "failed" /\ stage \in Resolving => Unavoidable']_vars
  <2> SUFFICES ASSUME TokenInv, Next, stage' = "failed", stage \in Resolving
               PROVE  Unavoidable'
    OBVIOUS
  <2> USE DEF Unavoidable, Resolving
  <2>1. CASE AskToken
    BY <2>1 DEF AskToken, TokenAnswered, TokenLost, TokenUnusable
  <2>2. CASE FetchInstance
    <3>1. CASE MayAnswer /\ Accept
      BY <3>1 DEF Accept
    <3>2. CASE MayRefuse /\ Refused
      BY <2>2, <3>2 DEF FetchInstance, MayRefuse, Refused, TokenInv
    <3>3. CASE AnswerLost
      BY <3>3 DEF AnswerLost
    <3> QED
      BY <2>2, <3>1, <3>2, <3>3 DEF FetchInstance
  <2> QED
    BY <2>1, <2>2 DEF Next, Load, Check, ParseTarget
<1> QED
  BY <1>1, TokenHolds, PTL DEF Spec, FallsBack
=============================================================================
