SPECIFICATION EmbedderFairSpec
CONSTANTS
    Texts = {t1, t2, t3}
    Blank = Blank
    Zero = Zero
    BatchSize = 3
    MaxRetries = 2
    MaxCache = 2
    MaxChunks = 6
INVARIANTS EmbedderTypeOK EachWithItsVector ZeroIsEarned CacheSound NotPaidTwice
PROPERTY EmbedderTerminates
CHECK_DEADLOCK FALSE
