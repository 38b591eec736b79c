----------------------------- MODULE MCRequest -----------------------------
(***************************************************************************)
(* An instance of Request for TLC.  The game's second assembly has the     *)
(* request classes; the first text of Early and Mail is not their path,    *)
(* but makes those of List, which comes later, and of Shop, which comes    *)
(* before.  Base and View are no request classes, and the answer to Mute   *)
(* has no packet id.  The schemas cover every kind of path, packet id and  *)
(* token, a request that cannot be resolved and one without an event.      *)
(***************************************************************************)
EXTENDS Request, TLC

Getter(n, kind, v) == [name |-> n, returns |-> kind, gives |-> v]
Packet(n) == <<Getter("get_Id", "other", 0), Getter("get_PacketId", "other", n)>>
Api(word, path) == <<Getter("get_ApiClass", "enum", word), Getter("get_ApiPath", "string", path)>>

Command(n, getters, path, packet) ==
  [name |-> n, command |-> TRUE, pair |-> TRUE, args |-> <<Packet(packet + 10), Packet(packet)>>,
   getters |-> getters, path |-> path, packet |-> packet]

Steam == Command("SignInCommand", Api("Login", <<"/", "SignInAsSteam">>),
                 <<"/", "login", "/", "SignInAsSteam">>, 1)
NewGuest == Command("GuestCommand", Api("Login", <<"SignInAsNewGuest">>),
                    <<"/", "login", "/", "SignInAsNewGuest">>, 2)
List == Command("ListCommand", Api("Shop", <<"/", "list">>), <<"/", "shop", "/", "list">>, 3)
Shop == Command("ShopCommand", Api("Shop", <<>>), <<"/", "shop">>, 4)
Early == Command("EarlyCommand",
                 <<Getter("get_From", "string", <<"/", "list">>)>> \o Api("Shop", <<"/", "early">>),
                 <<"/", "shop", "/", "early">>, 12)
Mail == Command("MailCommand",
                <<Getter("get_From", "string", <<>>)>> \o Api("Shop", <<"/", "mail">>),
                <<"/", "shop", "/", "mail">>, 5)
Far == Command("FarCommand", Api("Shop", <<>>), <<"/", "shop">>, 8)
Base == [Steam EXCEPT !.name = "BaseCommand", !.pair = FALSE, !.args = <<>>, !.packet = 6]
Mute == [Command("MuteCommand", Api("Login", <<"SignInAsMute">>),
                 <<"/", "login", "/", "SignInAsMute">>, 9)
           EXCEPT !.args[2] = <<Getter("get_Id", "other", 0)>>]
View == [List EXCEPT !.name = "View", !.command = FALSE, !.packet = 7]

mcAssemblies == << [csharp |-> FALSE, classes |-> <<View, Far>>],
                   [csharp |-> TRUE, classes |-> <<Base, Steam, NewGuest, View, Early, Shop, List, Mail, Mute>>] >>
mcLower == "Login" :> "login" @@ "Shop" :> "shop"

SignIn == [class |-> "SignInCommand", path |-> "signin", pid |-> 0, token |-> "game",
           url |-> TRUE, event |-> TRUE]
Guest == [SignIn EXCEPT !.class = "GuestCommand", !.path = "guest", !.pid = 2]
Other == [class |-> "ListCommand", path |-> "other", pid |-> 0, token |-> "absent",
          url |-> TRUE, event |-> TRUE]

mcSchema == { SignIn, [SignIn EXCEPT !.class = "MuteCommand", !.token = "empty", !.event = FALSE],
              Guest, Other, [Other EXCEPT !.url = FALSE],
              [Other EXCEPT !.class = "ShopCommand", !.pid = Absent] }
mcConfig == {[server |-> "url", token |-> TRUE], [server |-> "other", token |-> FALSE]}
=============================================================================
