SPECIFICATION FairSpec
CONSTANTS
    Keys = {forward, redirects}
    Platforms = {"linux", "windows"}
    MaxStarts = 2
INVARIANTS TypeOK CaptureSound ServingMeansInForce GivenBack
PROPERTY Stops
