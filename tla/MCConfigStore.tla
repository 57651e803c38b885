--------------------------- MODULE MCConfigStore ----------------------------
(* ConfigStore on current and legacy configs of every kind the loader tells  *)
(* apart, two identities and two seconds.                                    *)
EXTENDS ConfigStore, TLC

CONSTANTS k1, k2, b1, b2, nil, torn

Doc(o, b, v) == [observers |-> o, bots |-> b, valid |-> v]
Bot(n, q) == [name |-> n, mqtt |-> q]
Observer(n, b) == [name |-> n, brokers |-> b]
One == Observer("one", <<b1>>)
Two == Observer("two", <<b2>>)

MCDocuments == {
  Doc(<<>>, <<Bot("a", nil), Bot("b", One)>>, TRUE),         \* current
  Doc(<<>>, <<Bot("a", One), Bot("b", Two)>>, TRUE),         \* two owners
  Doc(<<>>, <<Bot("a", nil)>>, FALSE),                       \* does not parse
  Doc(<<One, Two>>, <<Bot("a", nil), Bot("b", nil)>>, TRUE), \* legacy
  Doc(<<Two>>, <<>>, TRUE),                                  \* legacy, no bots
  Doc(<<Two>>, <<Bot("a", nil), Bot("b", One)>>, TRUE)}      \* of both formats

\* Nothing, or the first bot without its observer.
MCRemnants == {Doc(<<>>, <<>>, TRUE), Doc(<<>>, <<Bot("a", nil)>>, TRUE)}

MCBrokers == {b1, b2}
MCKeys == {k1, k2}
MCSymmetry == Permutations(MCKeys)
=============================================================================
