SPECIFICATION InspectionSpec
CONSTANTS
  Letter = {"a", "b"}
  MaxWord = 3
  MaxWords = 2
  Empty = FALSE
  MaxOptions = 3
  MaxLoose = 4
  Goroutine = {1, 2}
  StopLine = {2, 13}
  Contents <- Files
INVARIANTS WordsArrive SpecArrives OptionsArrive QueryArrives PositionalsPlaced AsksAsTold WindowAround
