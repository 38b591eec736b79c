------------------------------ MODULE MCHook ------------------------------
(***************************************************************************)
(* Instances of Hook for TLC, with the first bytes of each body and the    *)
(* ends that Decoder finds in the first 13 of them.                        *)
(*                                                                         *)
(* send and post are wrapped, the others get a replacing stub or, like     *)
(* ping, none.  The body of send is near, all that are patched over 12     *)
(* bytes are far.  kick has a body of its own; the linker has folded the   *)
(* equal bodies of quit and post, which read a global through rip; check   *)
(* has an opcode that insn_len does not know; void is abstract.            *)
(***************************************************************************)
EXTENDS Hook, Decoder, TLC

CONSTANTS send, post, quit, check, ping, kick, void,       \* methods
          bsend, bpost, bcheck, bping, bkick,              \* bodies
          pre_send, post_prefix, ret_void, ret_bool        \* stubs

mcMethod == {send, post, quit, check, ping, kick, void}
mcBody == {bsend, bpost, bcheck, bping, bkick}
mcStub == {pre_send, post_prefix, ret_void, ret_bool}
mcWrapStub == {pre_send, post_prefix}

mcBodyOf == send :> bsend @@ post :> bpost @@ quit :> bpost @@ check :> bcheck
            @@ ping :> bping @@ kick :> bkick @@ void :> Null

Nops == [i \in 1 .. 24 |-> \h90]
mcCode ==
  bsend :> <<\h40, \h53, \h48, \h83, \hEC, \h20, \h48, \h8B, \hD9>> \o Nops
  @@ bpost :> <<\h48, \h89, \h4C, \h24, \h08, \h48, \h8B, \h05, \h10, 0, 0, 0>> \o Nops
  @@ bkick :> <<\h48, \h89, \h5C, \h24, \h08, \h57, \h48, \h83, \hEC, \h30,
                \h48, \h8B, \hF9>> \o Nops
  @@ bcheck :> <<\h55, \h8C, \hD8, \hC3>> \o Nops
  @@ bping :> <<\h33, \hC0, \hC3>> \o Nops
mcEnds ==
  bsend :> {2, 6} \cup (9 .. 13) @@ bpost :> {5} \cup (12 .. 13)
  @@ bkick :> {5, 6, 10, 13} @@ bcheck :> {1} \cup (3 .. 13) @@ bping :> 2 .. 13
mcBounds == [mcEnds EXCEPT ![bcheck] = {1}]
mcPosDep == [b \in mcBody |-> IF b = bpost THEN {12} ELSE {}]

\* The body of send stores a 16-bit constant: mov word [rcx+10h], 1234h.
mcShortCode ==
  [mcCode EXCEPT ![bsend] = <<\h66, \hC7, \h41, \h10, \h34, \h12, \h48, \h8B, \hC1>> \o Nops]
mcShortEnds == [mcEnds EXCEPT ![bsend] = {6} \cup (9 .. 13)]
mcShortBounds == [mcBounds EXCEPT ![bsend] = {8, 15}]

\* The ends in the first 13 bytes are those that the two length operators give,
\* and insn_len misreads none of the instructions but the one with prefix 66.
AllReadable(s, ends) == \A n \in {0} \cup ends : n < 13 => Readable(s, n + 1)
ASSUME EndsDecoded ==
  /\ \A b \in mcBody : /\ TrueEnds(mcCode[b], 13) = mcEnds[b]
                       /\ ReadEnds(mcCode[b], 13) = mcBounds[b]
                       /\ AllReadable(mcCode[b], mcEnds[b])
  /\ TrueEnds(mcShortCode[bsend], 13) = mcShortEnds[bsend]
  /\ ReadEnds(mcShortCode[bsend], 13) = mcShortBounds[bsend]
  /\ ~AllReadable(mcShortCode[bsend], mcShortEnds[bsend])

mcPlan == << [method |-> kick, stub |-> ret_void],
             [method |-> void, stub |-> ret_bool],
             [method |-> check, stub |-> ret_bool],
             [method |-> quit, stub |-> ret_void],
             [method |-> send, stub |-> pre_send],
             [method |-> post, stub |-> post_prefix] >>

\* The two wrapped methods alone, with bodies of their own.
mcHttpPlan == SubSeq(mcPlan, 5, 6)
mcUnfolded == [mcBodyOf EXCEPT ![quit] = bkick]
-----------------------------------------------------------------------------
(***************************************************************************)
(* The decoder against the architecture, over every opcode in front of     *)
(* each kind of address.                                                   *)
(***************************************************************************)
Addresses == { <<0>>, <<5>>, <<4, \h25>>, <<4, \h24>>, <<\h50>>, <<\h44, \h24>>, <<\h91>>,
               <<\h84, \h24>>, <<\hC1>>, <<\hD1>>, <<\h10>> }
Opcodes == {<<op>> : op \in Defined} \cup {<<\h0F, op>> : op \in DefinedAfter0F}
Code(legacy, rex, op, a) == legacy \o rex \o op \o a \o Nops

\* insn_len is right or gives up, except where it is known to misread, and each
\* opcode that it misreads it does get wrong.
ASSUME DecoderAgrees ==
  \A legacy \in {<<>>, <<\h66>>, <<\h67>>}, rex \in {<<>>, <<\h48>>}, op \in Opcodes :
    LET codes == {Code(legacy, rex, op, a) : a \in Addresses}
        wrong == {c \in codes : insn_len(c, 1) \notin {TrueLen(c, 1), 0}}
        misread == {c \in codes : Misread(c, 1)} IN
    /\ \A c \in codes : IsInstruction(c, 1)
    /\ wrong \subseteq misread
    /\ misread # {} => wrong # {}
=============================================================================
