SPECIFICATION StartupSpec
CONSTANTS
    EngineIds = {idA, idB}
    MaxBoots = 3
    NoFile = NoFile
    Torn = Torn
    key_len <- MCKeyLen
    mac_len <- MCMacLen
    priv_key_len <- MCPrivKeyLen
    KDF_STREAM_LEN = 6
    MinPassword = 2
    Zero = Zero
    LetterA = LetterA
    LetterB = LetterB
    Passwords <- MCPasswords
    OwnLengths = {2, 8}
    Texts = {m1, m2}
INVARIANTS NeverTorn KeyMemoryZeroed KeysAgree MacsExact
PROPERTY ImplementsEpochs
