------------------------------- MODULE MCStream -------------------------------
(* Instances of Stream.  Commands with and without a newline, with \r\n and  *)
(* with two lines in one write; files in packages of different sizes; texts  *)
(* of some lengths before a marker.                                          *)
EXTENDS Stream

Sent(c, content, packages, text) ==
  [begin |-> "command", commands |-> c, content |-> content,
   packages |-> packages, text |-> text]
Of(signal, size, bytes) == [signal |-> signal, size |-> size, bytes |-> bytes]

MCMessages ==
  {<<"x">>, <<"y", "NL">>, <<"x", "CR", "NL">>, <<"x", "NL", "y", "NL">>}

Commands == {Sent(c, <<>>, <<>>, <<>>) : c \in [1 .. 3 -> MCMessages]}

Short == <<"y">> \o Marker \o <<"NL">>

(* Five bytes in two packages; three in one, after a pause; three bytes in  *)
(* a package that announces four; a file that is cancelled in its second     *)
(* package; and one without bytes.                                           *)
Files ==
  {Sent(<<upload>>, <<"x", "y", "x", "NL", "y">>,
        <<Of("continue", "p4", <<"x", "y", "x", "NL">>),
          Of("continue", "p1", <<"y">>)>>,
        Short) : upload \in {<<"UP">>, <<"UP", "NL">>}}
  \cup
  {Sent(<< <<"UP">> >>, <<"x", "y">>,
        <<Of("pause", "p1", <<>>), Of("continue", "p2", <<"x", "y">>)>>, Short),
   Sent(<< <<"UP">> >>, <<"x", "y", "x">>,
        <<Of("continue", "p4", <<"x", "y", "x">>)>>, Short),
   Sent(<< <<"UP">> >>, <<"x", "y", "x">>,
        <<Of("continue", "p1", <<"x">>), Of("cancel", "p1", <<>>)>>,
        <<"x", "NL">>),
   Sent(<< <<"UP">> >>, <<>>, <<>>, Short)}

Ended(n, S) == {b \o Marker \o <<"NL">> : b \in [1 .. n -> S]}
Ended2 == UNION {Ended(n, {"x", "y", "CR", "NL"}) : n \in 0 .. 2}
Describing(t) ==
  [begin |-> "describing", commands |-> <<>>, content |-> <<>>,
   packages |-> <<>>,
   text |-> t]
Texts == {Describing(t) : t \in Ended2 \cup Ended(4, {"x", "y", "CR", "NL"})}

MCScripts == Commands \cup Files \cup Texts

(* What meets a read or a write that fails: the files of three bytes, sent   *)
(* and cancelled; commands with parts of a line; and a text.                 *)
MCFailing ==
  {f \in Files : f.content = <<"x", "y", "x">>}
    \cup {Sent([i \in 1 .. 3 |-> <<"x", "CR", "NL">>], <<>>, <<>>, <<>>),
          Describing(Short)}

MCShort == {Describing(t) : t \in Ended2}
=============================================================================
