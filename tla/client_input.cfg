\* IPv4 name servers of both textual lengths and every addr_len, next to
\* every startup message of up to five WCHARs, with every failure; options
\* strings of up to three words under every CheckOption policy.
CONSTANTS
    AddrStrings <- FamilyStringsV4
    MaxAddrLen = 5
    MaxChars = 5
    SizeBits = 16
    MayFail = TRUE
    Words = {config, opt, file}
    OptWords = {config, opt}
    ConfigOpt = config
    ExePath = exe
    Null = Null
    MaxArgs = 3
SPECIFICATION ClientSpec
INVARIANTS
    TypeOK
    
    StartupInBounds
    StartupSplit
    OptionsSound
CHECK_DEADLOCK FALSE
