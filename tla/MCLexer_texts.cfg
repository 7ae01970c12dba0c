SPECIFICATION Spec
CONSTANT Input <- Texts
INVARIANTS Tiled LinesTrue ItemsFit BodyDelimited
PROPERTY Terminates
