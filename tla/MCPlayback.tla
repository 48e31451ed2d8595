----------------------------- MODULE MCPlayback -----------------------------
(* Instance of Playback for TLC: a remote film that was never probed and a
   local one of three bytes, a user and an admin with a token each. *)
EXTENDS Playback

CONSTANTS s1, s2

Roles == ("ann" :> "user") @@ ("root" :> "admin")
Given == <<[user |-> "ann", kind |-> "user", revoked |-> FALSE]>>
Stream(type, index) == [type |-> type, index |-> index]
Films == ("url" :> [remote |-> TRUE, size |-> 0,
                    streams |-> <<Stream("Video", 0), Stream("Audio", 1), Stream("Subtitle", 3)>>])
      @@ ("file" :> [remote |-> FALSE, size |-> 3, streams |-> <<Stream("Video", 0)>>])
Shelf == <<<<"i", "url", <<"x">>>>, <<"j", "file", <<>>>>>>
Headers == {<<>>, <<1, 9>>, <<3, -1>>, <<-1, 2>>}
SlotSymmetry == Permutations({s1, s2})
==============================================================================
