--------------------------- MODULE MCFetchCommand ---------------------------
(* FetchCommand for TLC, in every mode.  The tree is                       *)
(*   top/ album/ disc/ d1.mp3                                              *)
(*               a1.flac  a1.mp3  (one stem, the latter without tags)      *)
(*        bonus/                                                           *)
(*        t1.ogg                                                           *)
EXTENDS FetchCommand

MCDepths == {-1, 1, 2}
MCModes == {"dir", "cli", "text"}
MCDirs == {"top", "album", "disc", "bonus"}
MCSubdirs == [top |-> <<"album", "bonus">>, album |-> <<"disc">>, disc |-> <<>>, bonus |-> <<>>]
MCTracks == [top |-> <<"t1">>, album |-> <<"a1flac", "a1mp3">>, disc |-> <<"d1">>,
             bonus |-> <<>>]
MCTypeOf == [t1 |-> "audio", a1flac |-> "audio", a1mp3 |-> "untagged", d1 |-> "audio"]
MCStemOf == [t1 |-> "t1", a1flac |-> "a1", a1mp3 |-> "a1", d1 |-> "d1"]

=============================================================================
