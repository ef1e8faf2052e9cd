\* A command that is over does nothing more.
SPECIFICATION Spec
CONSTANT MaxPresses = 1
CHECK_DEADLOCK FALSE
PROPERTY PromptIsLastWord
