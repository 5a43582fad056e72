SPECIFICATION FairSpec
CONSTANTS
    RING_SIZE = 6
    AUDIO_SAMPLES = 2
    MIC_GAIN = 10
    PCM_MAX = 3
    Raw <- LoudRaw
INVARIANT LatencyBounded
 
PROPERTY ReadEnds
