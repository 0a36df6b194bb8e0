\* Three queued prompts: one settled, one withheld, one still waiting.
SPECIFICATION ServeSpec
CONSTANTS
  NumPrompts = 3
  Foreign = {}
PROPERTIES ResumeServesRest
CHECK_DEADLOCK FALSE
