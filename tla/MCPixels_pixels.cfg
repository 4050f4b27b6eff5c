SPECIFICATION Spec
CONSTANTS
    DCTSIZE = 2
    Jobs <- AllJobs
    Lines = {1, 3}
    Picture <- MCPicture
INVARIANTS
    PlanesNear
    DoneMeansTaken
    
    ImageReturns
