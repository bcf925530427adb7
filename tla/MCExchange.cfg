CONSTANTS
    Names <- MCNames
    Exported <- MCExported
    Compressions = {"identity", "gzip", "zstd"}
    Foreign <- MCForeign
    HttpCodes = {100, 200, 401, 403, 404, 405, 431, 503, 599}
    ErrorCodes = {0, 7, 14}
    RpcCodes = {0, 1, 13, 16, 17}
SPECIFICATION ExchangeSpec
INVARIANTS
    StatusReported
    OkIsServers
CHECK_DEADLOCK FALSE
