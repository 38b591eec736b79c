---------------------------- MODULE MCHttpPatch ----------------------------
(***************************************************************************)
(* An instance of HttpPatch for TLC: the urls of two hosts, with paths     *)
(* that are or look like those of the lists of servers, and queries that   *)
(* hold a url; and the configurations with and without each url.           *)
(***************************************************************************)
EXTENDS HttpPatch

U(scheme, host, path, query) == [scheme |-> scheme, host |-> host, path |-> path, query |-> query]
NoUrl == U(<<>>, <<>>, <<>>, <<>>)

mcToken == { ":", "/", "?", "=", "serverinfos_", "serverinfos.json", Notices[1], "http", "https",
             "game", "80", "server", "3000", "login", "list", "api", "a", "1", "2", "q", "u", "x" }

Paths == { <<>>, <<"/", "login">>, <<"/", "serverinfos_", "1">>,
           <<"/", "serverinfos_", "1", "/">>, <<"/", "a", "/", "serverinfos_", "1">> }
Queries == { <<>>, <<"?", "q">>, <<"?", "u", "=", "http", ":", "/", "/", "x", "/">> }

mcUrl == { U(<<"https">>, h, p, q) : h \in {Notices, <<"game", ":", "80">>}, p \in Paths, q \in Queries }
         \cup { U(<<>>, <<>>, <<"/", "serverinfos_", "1">>, q) : q \in Queries }

mcConfig ==
  [server : { NoUrl, U(<<"http">>, <<"server", ":", "3000">>, <<>>, <<>>),
              U(<<"http">>, <<"server">>, <<"/", "api">>, <<"?", "q">>),
              U(<<"http">>, <<"server">>, <<>>, <<"?", "q">>),
              U(<<>>, <<"server">>, <<>>, <<>>) },
   serverinfos_url : { NoUrl, U(<<"http">>, <<"server", ":", "3000">>, <<"/", "serverinfos.json">>, <<>>),
                       U(<<"http">>, <<"server">>, <<"/", "serverinfos_", "2">>, <<>>),
                       U(<<"http">>, <<"server">>, <<>>, <<"?", "a", "/", "serverinfos_">>),
                       U(<<"https">>, Notices, <<"/", "list">>, <<>>) }]
mcHas == { {"get_url", "set_url", "SetRequestHeader"}, {"set_url", "SetRequestHeader"},
           {"get_url", "SetRequestHeader"}, {"get_url", "set_url"} }
=============================================================================
