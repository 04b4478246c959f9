----------------------------- MODULE MCParsing -----------------------------
(***************************************************************************)
(* ResponseParsing for TLC.  Each sender has objects that belong into its  *)
(* message, some with a flaw, and the templates around them; what is       *)
(* damaged holds bytes that begin, continue or end tags and lengths.       *)
(***************************************************************************)
EXTENDS ResponseParsing

P(tag, value) == Object(tag, value, <<>>)
T(tag, items) == Object(tag, Encoded(items), items)
One(object)   == <<object>>

Header == <<0, 218, 0, 0>>
Sender(groups, templates) ==
  [groups |-> groups, templates |-> templates, noise |-> {}]

(* SELECT: data object lists, which are read back as lists too.            *)
Fci ==
  Sender({One(P(<<\h9F, \h38>>, <<\h9F, \h37, 4, \h95, 5>>)),
          One(P(<<\h9F, \h38>>, <<\h95, 130, \h9F, \h37, 122>>)),
          One(P(<<\h9F, \h38>>, <<\h9F>>)), One(P(<<\h87>>, <<1>>)),
          [i \in 1..(MaxNodes - 2) |-> P(<<\h87>>, <<>>)]},
         {<<\hA5>>, <<\h6F>>})

GpoAnswer ==
  Sender({One(P(<<\h82>>, <<\h59, 0>>)), One(P(<<\h94>>, <<16, 1, 3, 2>>)),
          One(P(<<\h94>>, <<16, 1, 1, 2>>)), One(P(<<\h94>>, <<8, 1, 1, 0, 16, 3, 4, 2>>)),
          One(P(<<\h80>>, <<\h59, 0, 8, 1, 2, 1>>)), One(P(<<\h80>>, <<\h59, 0>>))},
         {<<\h77>>, <<\h70>>})

AcAnswer ==
  Sender({<<P(Cid, <<128>>), P(Ac, Bytes(8, 7)), P(Atc, <<0, 9>>)>>,
          One(P(Iad, <<1, 2, 3>>)), One(P(Iad, Bytes(MaxIad + 1, 1))), One(P(Iad, <<>>)),
          One(P(Sdad, Bytes(MinSignature, 5))), One(P(Sdad, Bytes(MinSignature - 1, 5))),
          One(P(DynamicNumber, <<6>>)), One(P(DynamicNumber, <<>>)),
          One(P(<<\h80>>, <<64, 0, 9>> \o Bytes(8, 7) \o <<1>>)),
          One(P(<<\h80>>, Bytes(10, 1))),
          One(P(<<\h5A>>, Bytes(128, 1))), One(P(<<\h57>>, Bytes(MaxValueLength + 1, 1)))},
         {<<\h77>>, <<\h70>>})

HostAnswer ==
  Sender({One(P(Arc, <<48, 48>>)), One(P(Arc, <<48, 0>>)), One(P(AuthCode, Bytes(6, 65))),
          One(P(IssuerAuth, Bytes(8, 1))), One(P(IssuerAuth, Bytes(17, 1))),
          One(P(Command, Header)), One(P(Command, Header \o <<1, 2, 0>>)),
          One(P(Command, Header \o <<2, 2>>)),
          One(T(<<\h71>>, <<P(Command, Header \o <<1, 9>>), P(Command, Header)>>)),
          One(T(<<\h72>>, <<P(Identifier, <<1, 2, 3, 4>>), P(Command, Header)>>))},
         {<<\h71>>, <<\h72>>})

(* Bytes that follow each other by chance.                                 *)
Strays == {0, 1, \h1F, \h3F, \h5A, \h70, \h7F, \h80, \h81, \h82, \hFF}
Noise ==
  [Sender({}, {}) EXCEPT
     !.noise = {<<byte>> : byte \in Strays}
               \cup {<<\h9F, \h37, 4>>, <<\h95, 6>>, <<\h9A, 245>>, <<\h81, \h80>>,
                     <<\h70, 3>>, <<\h70, 5>>, <<\h5A, 1>>}]

AllSenders == {Fci, GpoAnswer, AcAnswer, HostAnswer, Noise}

Values ==
  (<<\h9F, \h37>> :> <<1, 2, 3, 4>>) @@ (<<\h95>> :> <<0, 0, 8, 0, 0>>)
  @@ (<<\h57>> :> Bytes(130, 3)) @@ (<<\h9A>> :> Bytes(250, 4))
=============================================================================
