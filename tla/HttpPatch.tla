----------------------------- MODULE HttpPatch -----------------------------
(***************************************************************************)
(* The http patch (src/patches/http.cpp).  UnityWebRequest.Post and        *)
(* .SendWebRequest run a stub first.  Post's rewrites the host of the uri  *)
(* to that of the configured server; SendWebRequest's does so for the host *)
(* of the game's notices, and sends requests for a list of servers,        *)
(* /serverinfos_*, to a url of its own, with the original url in a header. *)
(* The game goes on making requests, one at a time on Unity's main thread, *)
(* while the init thread installs the two hooks.                           *)
(*                                                                         *)
(* A text is a sequence of tokens: the characters that the code looks for, *)
(* and words.                                                              *)
(***************************************************************************)
EXTENDS Integers, Sequences, FiniteSets, SequencesExt

CONSTANTS
  Token,    \* those characters and words
  Url,      \* the urls the game asks for, records as below
  Config,   \* records of two urls: server and serverinfos_url (config::g)
  Has       \* the methods of UnityWebRequest that may be left in the game,
            \* each a subset of {"get_url", "set_url", "SetRequestHeader"}

\* path starts with "/" and query with "?", unless they are empty, and each part
\* ends where the next one starts.  Without a scheme a url is relative.
IsUrl(u) ==
  /\ u \in [{"scheme", "host", "path", "query"} -> Seq(Token)]
  /\ u.path # <<>> => Head(u.path) = "/"
  /\ u.query # <<>> => Head(u.query) = "?"
  /\ ":" \notin Range(u.scheme) /\ "/" \notin Range(u.host) /\ "?" \notin Range(u.path)

Notices == <<"notice.limbuscompanyapi.com">>

ASSUME TokenAssumption == {":", "/", "?", "serverinfos_", Notices[1]} \subseteq Token
ASSUME UrlAssumption == \A u \in Url : IsUrl(u)
ASSUME ConfigAssumption == \A c \in Config : IsUrl(c.server) /\ IsUrl(c.serverinfos_url)
ASSUME HasAssumption == Has \subseteq SUBSET {"get_url", "set_url", "SetRequestHeader"}

Colon == <<":", "/", "/">>
Text(u) == u.scheme \o (IF u.scheme = <<>> THEN <<>> ELSE Colon) \o u.host \o u.path \o u.query

Method == {"SendWebRequest", "Post"}

VARIABLES
  config,   \* config::g
  has,      \* the methods that this game has
  todo,     \* the hooks that are still to be installed
  step,     \* where install_one is: "find", "inline" or "store"
  hooked,   \* whether the method's body jumps to the stub
  original, \* g_send_original, g_post_original: "null", "body" or "trampoline"
  method,   \* the method that the request is in
  at,       \* where in it: "none", "call", "stub", "original", "sent" or "lost"
  asked,    \* the url that the game asked for
  stubs,    \* the stubs that this request has run
  url,      \* its url now
  header    \* its X-Original-Url, empty if there is none

requestVars == <<method, at, asked, stubs, url, header>>
installVars == <<todo, step, hooked, original>>
vars == <<config, has, installVars, requestVars>>

Init ==
  /\ config \in Config /\ has \in Has
  /\ todo = <<"SendWebRequest", "Post">> /\ step = "find"
  /\ hooked = [m \in Method |-> FALSE] /\ original = [m \in Method |-> "null"]
  /\ method = "Post" /\ at = "none" /\ asked \in Url /\ stubs = {} /\ url = <<>> /\ header = <<>>
-----------------------------------------------------------------------------
(***************************************************************************)
(* Urls as texts.                                                          *)
(***************************************************************************)
\* The first place from i on where t stands in s, 0 if there is none.
find(s, t, i) ==
  LET places == {j \in i .. Len(s) + 1 - Len(t) : SubSeq(s, j, j + Len(t) - 1) = t}
  IN IF places = {} THEN 0 ELSE Min(places)

\* The part of s from i up to the next t.
UpTo(s, i, t) == SubSeq(s, i, IF find(s, t, i) = 0 THEN Len(s) ELSE find(s, t, i) - 1)

Absolute(s) == find(s, Colon, 1) # 0
Authority(s) == find(s, Colon, 1) + 3
Slash(s) == find(s, <<"/">>, Authority(s))

scheme_of(s) == UpTo(s, 1, Colon)
\* The port is left out.
host_without_port(s) == UpTo(UpTo(s, Authority(s), <<"/">>), 1, <<":">>)
host_of(s) == UpTo(s, Authority(s), <<"/">>)

url_replace_host_scheme(s, target) ==
  IF ~Absolute(target) \/ ~Absolute(s) THEN s
  ELSE scheme_of(target) \o Colon \o host_of(target)
         \o (IF Slash(s) = 0 THEN <<"/">> ELSE SubSeq(s, Slash(s), Len(s)))

url_path(s) ==
  IF ~Absolute(s) THEN <<>>
  ELSE IF Slash(s) = 0 THEN <<"/">>
  ELSE UpTo(s, Slash(s), <<"?">>)

IsServerInfos(path) == IsPrefix(<<"/", "serverinfos_">>, path) /\ find(path, <<"/">>, 3) = 0
-----------------------------------------------------------------------------
(***************************************************************************)
(* install_one, first for SendWebRequest and then for Post.                *)
(***************************************************************************)
Installing(s) == todo # <<>> /\ step = s
Leave == todo' = Tail(todo) /\ step' = "find"

NotFound ==
  /\ Installing("find") /\ Leave
  /\ UNCHANGED <<config, has, hooked, original, requestVars>>

\* The method pointer is not read before install_inline replaces it.
ReadNothing ==
  /\ Installing("find") /\ step' = "inline"
  /\ UNCHANGED <<config, has, todo, hooked, original, requestVars>>

ReadOriginal ==
  /\ Installing("find") /\ step' = "inline"
  /\ original' = [original EXCEPT ![Head(todo)] = "body"]
  /\ UNCHANGED <<config, has, todo, hooked, requestVars>>

\* install_inline fails, or replaces the method pointer only, which the game's
\* own compiled calls do not use.  It returns null or the body.
NoJump ==
  /\ Installing("inline") /\ Leave
  /\ UNCHANGED <<config, has, hooked, original, requestVars>>

PatchBody ==
  /\ Installing("inline") /\ step' = "store"
  /\ hooked' = [hooked EXCEPT ![Head(todo)] = TRUE]
  /\ UNCHANGED <<config, has, todo, original, requestVars>>

StoreOriginal ==
  /\ Installing("store") /\ Leave
  /\ original' = [original EXCEPT ![Head(todo)] = "trampoline"]
  /\ UNCHANGED <<config, has, hooked, requestVars>>

Install == NotFound \/ ReadOriginal \/ NoJump \/ PatchBody \/ StoreOriginal
-----------------------------------------------------------------------------
(***************************************************************************)
(* A request.                                                              *)
(***************************************************************************)
\* The game asks for a url through Post, which makes a request, or makes one
\* itself.
Ask ==
  /\ at \in {"none", "sent"}
  /\ method' \in Method /\ at' = "call"
  /\ asked' \in Url /\ url' = Text(asked') /\ stubs' = {} /\ header' = <<>>
  /\ UNCHANGED <<config, has, installVars>>

\* What the method itself does: Post makes the request, which is sent later.
Body ==
  IF method = "Post" THEN method' = "SendWebRequest" /\ at' = "call"
                     ELSE at' = "sent" /\ UNCHANGED method

Call ==
  /\ at = "call"
  /\ IF hooked[method] THEN at' = "stub" /\ UNCHANGED method ELSE Body
  /\ UNCHANGED <<config, has, installVars, asked, stubs, url, header>>

post_prefix ==
  /\ at = "stub" /\ method = "Post"
  /\ url' = IF Text(config.server) = <<>> THEN url
            ELSE url_replace_host_scheme(url, Text(config.server))
  /\ stubs' = stubs \cup {method} /\ at' = "original"
  /\ UNCHANGED <<config, has, installVars, method, asked, header>>

\* get_url, set_url and SetRequestHeader are called by name: one that is not
\* there is left out, without get_url the url looks empty.
Redirecting == "get_url" \in has /\ Absolute(url) /\ Text(config.server) # <<>>
ToServer == Redirecting /\ host_of(url) = Notices
ToServerInfos ==
  Redirecting /\ IsServerInfos(url_path(url)) /\ Text(config.serverinfos_url) # <<>>

NewUrl ==
  IF "set_url" \notin has THEN url
  ELSE IF ToServerInfos THEN Text(config.serverinfos_url)
  ELSE IF ToServer THEN url_replace_host_scheme(url, Text(config.server))
  ELSE url

\* The url is set first, and the header from it.
pre_send_url_first ==
  /\ at = "stub" /\ method = "SendWebRequest"
  /\ header' = IF ToServerInfos /\ "SetRequestHeader" \in has THEN NewUrl ELSE header
  /\ url' = NewUrl
  /\ stubs' = stubs \cup {method} /\ at' = "original"
  /\ UNCHANGED <<config, has, installVars, method, asked>>

pre_send ==
  /\ at = "stub" /\ method = "SendWebRequest"
  /\ header' = IF ToServerInfos /\ "SetRequestHeader" \in has THEN url ELSE header
  /\ url' = NewUrl
  /\ stubs' = stubs \cup {method} /\ at' = "original"
  /\ UNCHANGED <<config, has, installVars, method, asked>>

\* The end of both stubs.  The body is patched by now, and runs the stub again.
CallOriginal ==
  /\ at = "original"
  /\ \/ original[method] = "trampoline" /\ Body
     \/ original[method] = "body" /\ at' = "call" /\ UNCHANGED method
     \/ original[method] = "null" /\ at' = "lost" /\ UNCHANGED method
  /\ UNCHANGED <<config, has, installVars, asked, stubs, url, header>>

Next == Install \/ Ask \/ Call \/ post_prefix \/ pre_send \/ CallOriginal

Spec == Init /\ [][Next]_vars
-----------------------------------------------------------------------------
(***************************************************************************)
(* Properties.                                                             *)
(***************************************************************************)
\* The type of every variable, and no stub without an original.
TypeOK ==
  /\ config \in Config /\ has \in Has
  /\ todo \in Seq(Method) /\ step \in {"find", "inline", "store"}
  /\ hooked \in [Method -> BOOLEAN] /\ original \in [Method -> {"null", "body", "trampoline"}]
  /\ method \in Method /\ at \in {"none", "call", "stub", "original", "sent"}
  /\ asked \in Url /\ stubs \subseteq Method
  /\ url \in Seq(Token) /\ header \in Seq(Token)

\* Urls by their parts.  A path may only be missing at the very end of a url:
\* for "http://host?x" the code takes "host?x" for the host (http.cpp:38-41).
\* "/login?from=http://x" is taken for an absolute url (http.cpp:28-29).
Parsed(u) ==
  /\ u.path # <<>> \/ u.query = <<>>
  /\ u.scheme = <<>> => ~Absolute(Text(u))
Rehosted(u, s) ==
  IF s.scheme = <<>> \/ u.scheme = <<>> THEN u
  ELSE [s EXCEPT !.path = IF u.path = <<>> THEN <<"/">> ELSE u.path, !.query = u.query]

WantsServer(u) == u.scheme # <<>> /\ u.host = Notices
WantsServerInfos(u) == u.scheme # <<>> /\ IsServerInfos(u.path)

\* The url that a request goes to SendWebRequest with.
Original == IF "Post" \in stubs THEN Rehosted(asked, config.server) ELSE asked

Destination ==
  LET u == Original
      on == "SendWebRequest" \in stubs /\ {"get_url", "set_url"} \subseteq has
            /\ Text(config.server) # <<>>
  IN IF on /\ WantsServerInfos(u) /\ Text(config.serverinfos_url) # <<>>
     THEN config.serverinfos_url
     ELSE IF on /\ WantsServer(u) THEN Rehosted(u, config.server)
     ELSE u

\* The configuration's urls are read by their parts, and do not send a request
\* back to where it is redirected.
Settled ==
  /\ Parsed(config.server) /\ Parsed(config.serverinfos_url)
  /\ ~WantsServer(config.serverinfos_url) /\ ~WantsServerInfos(config.serverinfos_url)

\* A request goes where http.hpp:4-10 says, path and query kept, however often
\* its stubs ran in the window before install_one stores the trampoline.
RequestsReachTheirServer ==
  (at = "sent" /\ Parsed(asked) /\ Settled) => url = Text(Destination)

\* X-Original-Url (http.cpp:132-135) stands in the requests for a list of servers
\* that reach SendWebRequest's stub, where the game has get_url and
\* SetRequestHeader and both urls are configured, and in no others. It names,
\* however often the stub ran, the url that SendWebRequest was called with: what
\* Post's stub made of the game's, if it ran. It stands there without set_url too,
\* when nothing is sent elsewhere, and not in notices, which may be.
OriginalUrlKept ==
  (at = "sent" /\ Parsed(asked) /\ Settled) =>
    /\ header # <<>> => header = Text(Original)
    /\ header # <<>> <=> /\ "SendWebRequest" \in stubs /\ {"get_url", "SetRequestHeader"} \subseteq has
                         /\ WantsServerInfos(Original)
                         /\ <<>> \notin {Text(config.server), Text(config.serverinfos_url)}
=============================================================================
