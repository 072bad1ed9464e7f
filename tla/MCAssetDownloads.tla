--------------------------- MODULE MCAssetDownloads ---------------------------
(***************************************************************************)
(* AssetDownloads with two pictures and a clip, a file of the user's own,  *)
(* and three downloads.                                                    *)
(***************************************************************************)
EXTENDS AssetDownloads
=============================================================================
