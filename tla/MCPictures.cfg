CONSTANTS
  W = 8
  H = 6
  Places <- MCPlaces
  Lengths <- MCLengths
  Thicknesses <- MCThicknesses
  FontSizes <- MCFontSizes
  Texts <- MCTexts
  CamW = 10
  CamH = 8
  Q = 4
  Homographies <- MCHomographies
SPECIFICATION PicturesSpec
INVARIANTS ShapesWhole ChromaFollows NothingCutOff NearestOwner
