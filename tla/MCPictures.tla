----------------------------- MODULE MCPictures -----------------------------
(* Drawing and stitching on small pictures, one or the other: a behaviour  *)
(* makes one call of a drawing function, or one panorama.                  *)
EXTENDS Drawing, Stitching

MCPlaces == {-2, 0, 3, 4}
MCLengths == {0, 1, 4}
MCThicknesses == {-1, 1, 4}
MCFontSizes == {1, 2}
MCTexts == {<<"print">>, <<"newline", "other">>,
            <<"print", "other", "print", "newline", "print">>}

(* A shift by fractions of a pixel, a turn by a quarter, a picture twice   *)
(* as wide, a sheared one, and one seen at an angle.                       *)
MCHomographies == {<<4, 0, 9, 0, 4, -6, 0, 0, 4>>, <<0, -1, 2, 1, 0, 1, 0, 0, 1>>,
                   <<2, 0, -7, 0, 1, 0, 0, 0, 1>>, <<1, 1, 0, 0, 1, 3, 0, 0, 1>>,
                   <<4, 0, 0, 0, 3, 0, 1, 0, 3>>}

PicturesInit == Init /\ StitchInit

PicturesNext ==
  \/ stage = "load" /\ Next /\ UNCHANGED stitchVars
  \/ call = Nothing /\ StitchNext /\ UNCHANGED vars

PicturesSpec == PicturesInit /\ [][PicturesNext]_<<vars, stitchVars>>
=============================================================================
