------------------------------ MODULE MCCatalog ------------------------------
(* Instance of Catalog for TLC: a film with an NFO file, and a series of one
   episode that is taken for two entries one after the other.  Two people have
   the same name. *)
EXTENDS Catalog

Shelf ==
  (1 :> [type |-> "movie", lib |-> 1, parent |-> 0]) @@ (2 :> [type |-> "series", lib |-> 2, parent |-> 0]) @@
  (3 :> [type |-> "season", lib |-> 2, parent |-> 2]) @@ (4 :> [type |-> "episode", lib |-> 2, parent |-> 3])
Pics(b) == [poster |-> "", backdrops |-> b, backdrop |-> "", logo |-> ""]
Of(genres, cast, crew, guests, pictures) ==
  [genres |-> genres, cast |-> cast, crew |-> crew, studios |-> <<>>, tags |-> <<>>, guests |-> guests,
   poster |-> "", still |-> "", pictures |-> pictures]
Answers ==
  ("m" :> Of(<<11>>, <<21>>, <<[who |-> 22, role |-> ""]>>, <<>>, Pics(<<[url |-> "x", vote |-> 1]>>))) @@
  ("s" :> Of(<<>>, <<>>, <<>>, <<21, 22>>, Pics(<<[url |-> "x", vote |-> 1], [url |-> "", vote |-> 1], [url |-> "y", vote |-> 2]>>))) @@
  ("u" :> Of(<<>>, <<>>, <<>>, <<>>, Pics(<<>>))) @@
  ("t" :> Of(<<>>, <<>>, <<>>, <<22>>, Pics(<<[url |-> "z", vote |-> 1]>>)))
Files == 1 :> [genres |-> <<"drama">>, studios |-> <<>>, tags |-> <<>>, actors |-> <<23>>, poster |-> "", backdrops |-> <<>>]
Names == (11 :> "drama") @@ (21 :> "ann") @@ (22 :> "bob") @@ (23 :> "ann")
Faces == (11 :> "") @@ (21 :> "") @@ (22 :> "") @@ (23 :> "w")
Found == {<<1, "m">>, <<2, "s">>, <<2, "t">>, <<2, "u">>}
==============================================================================
