------------------------------- MODULE MCRgb -------------------------------
(***************************************************************************)
(* Small frame buffers for Rgb: two columns and two rows of characters of  *)
(* two by two dots, a cut third column, an undisplayed pixel at the end of *)
(* each scan line, and a uint32_t that wraps after a few rows.  The glyphs *)
(* overlap, so that overstriking shows.                                    *)
(***************************************************************************)
EXTENDS RgbHistory

MCGlyph == [ch \in Char |->
              CASE ch = "a" -> {<<0, 0>>, <<1, 1>>}
                [] ch = "b" -> {<<0, 1>>, <<1, 1>>}
                [] OTHER    -> {}]
=============================================================================
