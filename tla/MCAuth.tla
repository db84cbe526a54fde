------------------------------- MODULE MCAuth -------------------------------
(* Model-checking instance of Auth. *)
EXTENDS Auth, TLC

CONSTANTS c1, c2, c3

Key(kid, secret, use, alg) == [ kid |-> kid, secret |-> secret, use |-> use, alg |-> alg ]

\* Two issuers that both call a key k1; the first rotates to k2 and drops k1.
MCFirstKeys == [ i \in { "a", "b" } |->
  IF i = "a" THEN { Key("k1", "a1", "sig", "RS256"), Key("ke", "ae", "enc", None) }
  ELSE { Key("k1", "b1", None, None), Key(None, "bn", "sig", "RS256") } ]
MCNextKeys == [ i \in { "a", "b" } |->
  IF i = "a" THEN { Key("k2", "a2", "sig", "RS256") } ELSE MCFirstKeys[i] ]

Token(iss, kid, secret, alg) ==
  [ shape |-> "jws", iss |-> iss, kid |-> kid, secret |-> secret, alg |-> alg,
    aud |-> "us", exp |-> MaxTime, sub |-> "s" ]

\* Good ones of each issuer and each generation, and one for each check that can fail.
MCTokens ==
  { Token("a", "k1", "a1", "RS256"), Token("a", "k2", "a2", "RS256"), Token("b", "k1", "b1", "RS256"),
    Token("a", "k1", "b1", "RS256"), Token("a", "ke", "ae", "RS256"), Token("a", "k1", "a1", "RS512"),
    Token("a", "k1", "a1", "HS256"), Token("z", "k1", "a1", "RS256"), Token("b", None, "bn", "RS256"),
    [ Token("b", "k1", "b1", "RS256") EXCEPT !.aud = "them" ],
    [ Token("b", "k1", "b1", "RS256") EXCEPT !.exp = 0 ],
    [ Token("b", "k1", "b1", "RS256") EXCEPT !.sub = None ],
    [ Token("b", "k1", "b1", "RS256") EXCEPT !.shape = "junk" ] }

\* The clock and the events are for the first issuer's good tokens: any other token
\* comes early, and a token with something wrong with it is one caller's.  Three calls.
Good == { Token("a", "k1", "a1", "RS256"), Token("a", "k2", "a2", "RS256") }
Other == { c \in Callers : caller[c].tok \notin Good \cup { None } }
OthersAreEarly ==
  /\ \A c, d \in Callers : c # d => caller[c].nth + caller[d].nth <= 3
  /\ Other # {} => now + events <= 1
  /\ Cardinality({ c \in Other : caller[c].tok # Token("b", "k1", "b1", "RS256") }) <= 1

Symmetry == Permutations(Callers)

Setting(issuers, audience, uri, allow) ==
  [ issuers |-> issuers, audience |-> audience, uri |-> uri, allow |-> allow ]
Plain == [ scheme |-> "http", loopback |-> FALSE ]

MCFlags ==
  { Setting(<< >>, None, None, FALSE), Setting(<< "a" >>, None, None, FALSE),
    Setting(<< "a", "b" >>, "us", None, FALSE), Setting(<< "a", "a" >>, "us", None, FALSE),
    Setting(<< "a", "b" >>, "us", Plain, TRUE), Setting(<< "b" >>, "us", Plain, FALSE),
    Setting(<< "b" >>, "us", Plain, TRUE) }
=============================================================================
