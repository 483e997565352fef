\* A prompt edit and a mode edit at the same time.
CONSTANTS
    r1 = r1  r2 = r2  r3 = r3
    Requests = {r1, r2}
    Kind <- ModesAndPrompt
    MaxCrashes = 0
    MaxIoErrors = 0
    MaxDeploys = 0
SPECIFICATION Spec
INVARIANTS PromptEditsKept
