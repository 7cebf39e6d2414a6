SPECIFICATION Spec
CONSTANTS
    Jobs = {j}
    j = j
    MaxVersion = 2
    MaxLogins = 2
    Faults = {"crash"}
PROPERTIES
    ResumedJobsRun
