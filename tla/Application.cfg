CONSTANTS
  Groups = {"microphone", "training", "key", "window", "detector", "diagnostics"}
  Slots = {a}
  Phrases = {p, q}
  Shipped = {p, q}
  Levels = {10, 60}
  TakeFrames = 5
  MaxTrainings = 2
  None = None
  Passphrases = {first, second}
  NoPassphrase = NoPassphrase
  QueueSize = 2
  MaxMoves = 3
  MaxTexts = 2
  MaxCloses = 1
  Sensitivity = 50
  Margin = 15
  Confirmation = 2
  Refractory = 2
  FrameSamples = 2
  Blocks = {1, 5}
  Scores = {20, 70, 90}
  MaxFrames = 9
  MaxTroubles = 2
  MaxChanges = 1
  MaxRestarts = 1
SPECIFICATION Spec
INVARIANTS TypeOK OneMicrophoneUser ProbeSettles DoesNotHearItself TakesGoWithTraining ModelIsForItsPhrase UnlockedKeyIsRead WindowIsTold CountMirrorsDetector ReportIsTrue
CHECK_DEADLOCK FALSE
