------------------------------ MODULE MCServe ------------------------------
(* A small instance of Serve for TLC.                                      *)
EXTENDS Serve

\* A key of the configuration and one that `keys create` makes.
MCRaws == {"configured", "created"}
MCConfigured == {"configured"}

MCGrants == {{"admin"}}

\* Two tracks; a single track; payloads with a missing title or artist; events
\* without tracks, one of them not supported; every other route.
MCMessages ==
  {Lidarr("Download", TRUE, <<"t1", "t2">>, ""), Lidarr("Download", TRUE, <<"t1", "">>, ""),
   Lidarr("TrackRetag", TRUE, <<>>, "t1"), Lidarr("Delete", TRUE, <<"t1">>, ""),
   Lidarr("Delete", FALSE, <<"t1">>, ""), Lidarr("Grab", TRUE, <<>>, ""),
   Lidarr("Test", TRUE, <<>>, ""), Plain("status"), Plain("readyz"), Plain("healthz")}

=============================================================================
