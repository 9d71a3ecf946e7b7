SPECIFICATION FairSpec
CONSTANTS
    MaxNodes = 7
    Cases <- LocalStars
PROPERTY NetworkConfigured
