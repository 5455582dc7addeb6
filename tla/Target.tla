------------------------------- MODULE Target -------------------------------
(***************************************************************************)
(* The URLs of the server (src/target.rs): Target::parse makes of the      *)
(* configured URL the WebSocket URL and the base of the response URLs.     *)
(*                                                                         *)
(* A path is the sequence of its segments, as the url library splits it:   *)
(* "/" is <<"">>, "/a" is <<"a">> and "/a/" is <<"a", "">>. The empty      *)
(* string, which trimming may leave, is <<>>. Host and port are copied and *)
(* left out. "extras" says whether there is a query or a fragment.         *)
(***************************************************************************)
EXTENDS Integers, Sequences

(* The segment after a trailing slash.                                     *)
Empty == ""

(* A segment is any string; the ones that the code names are listed.       *)
Segments == STRING \cup {Empty, "ws", "response"}
Urls == [scheme : STRING, path : Seq(Segments), extras : BOOLEAN]

\* Mutant: the response URLs of a WebSocket URL are never encrypted.
HttpSchemePlain == [http |-> "http", https |-> "https", ws |-> "http", wss |-> "http"]

(* The schemes of the two URLs, by the configured scheme.                  *)
HttpScheme == [http |-> "http", https |-> "https", ws |-> "http", wss |-> "https"]
WsScheme == [http |-> "ws", https |-> "wss", ws |-> "ws", wss |-> "wss"]
Supported == DOMAIN WsScheme

(* trim_end_matches('/'): the path up to its last segment that is not "".  *)
TrimmedLength(path) ==
    CHOOSE n \in 0..Len(path) :
        /\ n > 0 => path[n] # Empty
        /\ \A i \in (n + 1)..Len(path) : path[i] = Empty
Trim(path) == SubSeq(path, 1, TrimmedLength(path))

EndsWith(path, segment) == path # <<>> /\ path[Len(path)] = segment
Pop(path) == SubSeq(path, 1, Len(path) - 1)

(* with_trailing_slash                                                     *)
WithTrailingSlash(path) == IF EndsWith(path, Empty) THEN path ELSE Append(path, Empty)

(* The paths of the two URLs. A path that ends in "ws" is the endpoint     *)
(* itself, whatever the scheme; any other is the base.                     *)
BasePath(path) == WithTrailingSlash(IF EndsWith(path, "ws") THEN Pop(path) ELSE path)
WsPath(path) ==
    IF EndsWith(path, "ws") THEN WithTrailingSlash(path)
                            ELSE Pop(BasePath(path)) \o <<"ws", Empty>>

(* Target::parse of a URL whose scheme is supported.                       *)
Parse(url) ==
    LET path == Trim(url.path) IN
    [ws   |-> [scheme |-> WsScheme[url.scheme], path |-> WsPath(path), extras |-> FALSE],
     base |-> [scheme |-> HttpScheme[url.scheme], path |-> BasePath(path), extras |-> FALSE]]

(* A uid that validate_uid accepts: what is left of it without its tabs    *)
(* and line breaks, and whether it has any. Those that are a dot segment   *)
(* only without them are left out: the url library resolves these.         *)
DotSegments == {".", ".."}
RequestUids == {uid \in [text : Segments, breaks : BOOLEAN] :
                    uid.breaks => uid.text \notin DotSegments}

(* PathSegmentsMut::push of the url library: a dot segment is skipped, and *)
(* the parser drops tabs and line breaks.                                  *)
Push(path, uid) ==
    IF uid.text \in DotSegments THEN path ELSE Append(path, uid.text)

(* Target::response_url                                                    *)
ResponsePath(target, uid) ==
    Append(Push(Append(Pop(target.base.path), "response"), uid), Empty)
=============================================================================
