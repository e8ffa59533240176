CONSTANTS
  Widths <- Sides
  Heights <- Sides
  ModelSizes <- Sizes
  Formats = {"RGB888", "GRAY8"}
  Faults = {"malloc", "improcess", "rknn_inputs_set", "rknn_run", "rknn_outputs_get"}
SPECIFICATION Spec
INVARIANTS TypeOK ReadsInside Written BoxesLeadBack LeftBehind
